---- MODULE Spec2Model ----
(***************************************************************************)
(* Minerva: board model (minerva-types/board.rs, game.rs), rule-based      *)
(* engine (minerva-engine) and match orchestrator (minerva-orchestrator).  *)
(*                                                                         *)
(* Option<T> is modelled as a sequence of length <= 1: None is <<>> and    *)
(* Some(x) is <<x>>.  Scores (f32 in the source) are kept in tenths so     *)
(* that 0.1 is the integer 1 and 1000.0 is 10000.                          *)
(***************************************************************************)
EXTENDS Integers, Sequences, FiniteSets, TLC

VARIABLES
    board,      \* BoardState under construction / under test
    prev,       \* clone of an earlier board (the `a` of `let mut b = a.clone()`)
    region,     \* the squares the set-up calls of this run may touch
    nops,       \* number of mutating board calls made so far
    edits,      \* number of mutating board calls made since prev was cloned
    last,       \* the move_piece or apply_move call, if the last mutating call
                \* was one: its arguments, the board before it, its result
    game,       \* ply and last_move of the GameSnapshot that holds board
    diffed,     \* TRUE when diffs/rdiffs/inferred belong to the current (prev, board)
    diffs,      \* prev.differences(&board)
    rdiffs,     \* board.differences(&prev)
    inferred,   \* BoardState::infer_move_from_diffs(&diffs)
    evaluated,  \* TRUE once evaluate_position has been called on board
    ctx_side,   \* TurnContext.side of that call
    decision,   \* the EngineDecision it returned
    pc,            \* where boot()/run() stand: the call they make next
    max_retries,   \* OrchestratorConfig.max_retries
    turn,          \* the loop variable of run()
    last_snapshot, \* Orchestrator.last_snapshot
    snapshot,      \* the snapshot play_turn recognized in the current turn
    published,     \* the events the event transport took, in order
    recorded,      \* TelemetryStore.events
    trace,         \* the calls made on the collaborators, in order
    failure,       \* the error boot()/run() returned, if any
    applied_moves, \* how many times `stored.apply_move` of play_turn returned Ok
    consumer,      \* the task that forwards events to the terminal UI
    inbox,         \* the events the broadcast channel holds for its receiver
    last_send,     \* the latest Orchestrator::publish call, step by step
    metrics,       \* AdbController.metrics (ControllerMetrics)
    injection,     \* the AdbController::inject_actions calls made, in order of call
    ui_channel,    \* the UiMessages queued in the mpsc channel of the terminal UI
    ui_senders,    \* the Senders of that channel not dropped yet
    ui_main,       \* where run_application stands with respect to the UI channel
    ui_loop,       \* the locals of run_loop and its position
    ui_sent,       \* the messages the channel accepted, in order
    ui_handled     \* the messages run_loop received, in order

boardVars == <<board, prev, region, nops, edits, last, game, diffed, diffs, rdiffs, inferred>>

engineVars == <<evaluated, ctx_side, decision>>

orchVars ==
    <<pc, max_retries, turn, last_snapshot, snapshot, published, recorded, trace, failure,
      applied_moves>>

netVars == <<consumer, inbox, last_send>>

adbVars == <<metrics, injection>>

uiVars == <<ui_channel, ui_senders, ui_main, ui_loop, ui_sent, ui_handled>>

-----------------------------------------------------------------------------
(* Option *)

None == <<>>

Some(x) == <<x>>

IsSome(o) == o # <<>>

Unwrap(o) == o[1]

-----------------------------------------------------------------------------
(* board.rs: sides, kinds, squares, pieces *)

PlayerSide == {"Blue", "Red"}

PieceKind == {"General", "Guard", "Elephant", "Horse", "Chariot", "Cannon", "Soldier"}

opponent(side) == IF side = "Blue" THEN "Red" ELSE "Blue"

DEFAULT_WIDTH == 9

DEFAULT_HEIGHT == 10

Square(f, r) == [file |-> f, rank |-> r]

Piece(o, k) == [owner |-> o, kind |-> k]

\* A plausible slip of Square::offset: `<=` for `<` in the upper bounds
offset_inclusive(sq, df, dr) ==
    LET nf == sq.file + df
        nr == sq.rank + dr
    IN  IF nf >= 0 /\ nr >= 0 /\ nf <= DEFAULT_WIDTH /\ nr <= DEFAULT_HEIGHT
        THEN Some(Square(nf, nr))
        ELSE None

\* Square::offset: checked against the DEFAULT dimensions, not the board's own.
offset(sq, df, dr) ==
    LET nf == sq.file + df
        nr == sq.rank + dr
    IN  IF nf >= 0 /\ nr >= 0 /\ nf < DEFAULT_WIDTH /\ nr < DEFAULT_HEIGHT
        THEN Some(Square(nf, nr))
        ELSE None

\* BoardState::empty
empty ==
    [side_to_move |-> "Blue",
     pieces       |-> [i \in 0 .. (DEFAULT_WIDTH * DEFAULT_HEIGHT - 1) |-> None],
     width        |-> DEFAULT_WIDTH,
     height       |-> DEFAULT_HEIGHT]

\* BoardState::index
index(b, square) ==
    IF square.file < b.width /\ square.rank < b.height
    THEN Some(square.rank * b.width + square.file)
    ELSE None

\* BoardState::piece_at: index(..).and_then(|idx| pieces.get(idx).copied().flatten())
piece_at(b, square) ==
    LET idx == index(b, square)
    IN  IF IsSome(idx) /\ Unwrap(idx) \in DOMAIN b.pieces
        THEN b.pieces[Unwrap(idx)]
        ELSE None

\* BoardState::is_empty
is_empty(b, square) == piece_at(b, square) = None

\* BoardState::set_piece: the value it returns ...
set_piece_ok(b, square) ==
    LET idx == index(b, square)
    IN  IsSome(idx) /\ Unwrap(idx) \in DOMAIN b.pieces

\* ... and the board it leaves behind.
set_piece(b, square, piece) ==
    IF set_piece_ok(b, square)
    THEN [b EXCEPT !.pieces[Unwrap(index(b, square))] = piece]
    ELSE b

\* A plausible slip of move_piece: the origin is never cleared.
move_piece_keeps_origin(b, from, to) ==
    LET moving == piece_at(b, from)
    IN  IF moving = None
        THEN [ok |-> FALSE, err |-> "origin_empty", captured |-> None, board |-> b]
        ELSE IF ~set_piece_ok(b, to)
        THEN [ok |-> FALSE, err |-> "target_invalid", captured |-> None, board |-> b]
        ELSE [ok |-> TRUE, err |-> "", captured |-> piece_at(b, to),
              board |-> set_piece(b, to, moving)]

\* A plausible slip of move_piece: the piece is taken off its origin before
\* the destination is tested.
move_piece_takes_first(b, from, to) ==
    LET moving   == piece_at(b, from)
        captured == piece_at(b, to)
    IN  IF moving = None
        THEN [ok |-> FALSE, err |-> "origin_empty", captured |-> None, board |-> b]
        ELSE IF ~set_piece_ok(b, to)
        THEN [ok |-> FALSE, err |-> "target_invalid", captured |-> None,
              board |-> set_piece(b, from, None)]
        ELSE [ok |-> TRUE, err |-> "", captured |-> captured,
              board |-> set_piece(set_piece(b, to, moving), from, None)]

\* BoardState::move_piece: Result<Option<Piece>, String> plus the board afterwards.
move_piece(b, from, to) ==
    LET moving   == piece_at(b, from)
        captured == piece_at(b, to)
    IN  IF moving = None
        THEN [ok |-> FALSE, err |-> "origin_empty", captured |-> None, board |-> b]
        ELSE IF ~set_piece_ok(b, to)
        THEN [ok |-> FALSE, err |-> "target_invalid", captured |-> None, board |-> b]
        ELSE [ok |-> TRUE, err |-> "", captured |-> captured,
              board |-> set_piece(set_piece(b, to, moving), from, None)]

Min(a, b) == IF a <= b THEN a ELSE b

\* The i-th square (from 0) of the nested loops
\* `for rank in 0..h { for file in 0..w { .. } }` over a grid w wide.
ScanSquare(w, i) == Square(i % w, i \div w)

\* The squares of a w x h grid in that order
ScanOrder(w, h) == [i \in 1 .. (w * h) |-> ScanSquare(w, i - 1)]

\* A plausible slip of differences: a square is compared only where self holds a piece.
differences_of_occupied(a, b) ==
    LET w == Min(a.width, b.width)
        h == Min(a.height, b.height)
        changed == SelectSeq(ScanOrder(w, h),
                             LAMBDA square : IsSome(piece_at(a, square))
                                             /\ piece_at(a, square) # piece_at(b, square))
    IN  [k \in 1 .. Len(changed) |->
            [square |-> changed[k],
             before |-> piece_at(a, changed[k]),
             after  |-> piece_at(b, changed[k])]]

\* BoardState::differences: one BoardDiff per square of the overlapping
\* rectangle with `before != after`, in scan order
differences(a, b) ==
    LET w == Min(a.width, b.width)
        h == Min(a.height, b.height)
        changed == SelectSeq(ScanOrder(w, h),
                             LAMBDA square : piece_at(a, square) # piece_at(b, square))
    IN  [k \in 1 .. Len(changed) |->
            [square |-> changed[k],
             before |-> piece_at(a, changed[k]),
             after  |-> piece_at(b, changed[k])]]

InferStart ==
    [from_square |-> None, to_square |-> None, moving_piece |-> None, captured_piece |-> None]

\* One iteration of the `for diff in diffs` loop of infer_move_from_diffs.
InferStep(acc, diff) ==
    IF IsSome(diff.before) /\ diff.after = None
    THEN [acc EXCEPT !.from_square = Some(diff.square), !.moving_piece = diff.before]
    ELSE IF diff.before = None /\ IsSome(diff.after)
    THEN [acc EXCEPT !.to_square = Some(diff.square), !.moving_piece = diff.after]
    ELSE IF IsSome(diff.before) /\ IsSome(diff.after) /\ diff.before # diff.after
    THEN [acc EXCEPT !.to_square = Some(diff.square), !.moving_piece = diff.after,
                     !.captured_piece = diff.before]
    ELSE acc

RECURSIVE InferFold(_, _, _)
InferFold(ds, i, acc) ==
    IF i > Len(ds) THEN acc ELSE InferFold(ds, i + 1, InferStep(acc, ds[i]))

\* A plausible slip of infer_move_from_diffs: the first diff is taken for the
\* origin and the last for the destination, whatever their patterns.
infer_by_position(ds) ==
    IF Len(ds) < 2 THEN None
    ELSE Some([from |-> ds[1].square, to |-> ds[Len(ds)].square,
               piece |-> Unwrap(InferFold(ds, 1, InferStart).moving_piece),
               captured |-> InferFold(ds, 1, InferStart).captured_piece])

\* A plausible slip of the inference: the third match arm missing, so that a
\* square occupied before and after is passed over
infer_move_from_diffs_quiet_only(ds) ==
    LET quiet == SelectSeq(ds, LAMBDA d : d.before = None \/ d.after = None)
        acc   == InferFold(quiet, 1, InferStart)
    IN  IF IsSome(acc.from_square) /\ IsSome(acc.to_square) /\ IsSome(acc.moving_piece)
        THEN Some([from |-> Unwrap(acc.from_square), to |-> Unwrap(acc.to_square),
                   piece |-> Unwrap(acc.moving_piece), captured |-> acc.captured_piece])
        ELSE None

\* BoardState::infer_move_from_diffs: Option<(from, to, piece, captured)>
infer_move_from_diffs(ds) ==
    LET acc == InferFold(ds, 1, InferStart)
    IN  IF IsSome(acc.from_square) /\ IsSome(acc.to_square) /\ IsSome(acc.moving_piece)
        THEN Some([from |-> Unwrap(acc.from_square), to |-> Unwrap(acc.to_square),
                   piece |-> Unwrap(acc.moving_piece), captured |-> acc.captured_piece])
        ELSE None

BackRank ==
    <<"Chariot", "Horse", "Elephant", "Guard", "General", "Guard", "Elephant", "Horse", "Chariot">>

CannonFiles == <<1, 7>>

SoldierFiles == <<0, 2, 4, 6, 8>>

RECURSIVE SeedBackRank(_, _)
SeedBackRank(b, i) ==
    IF i > Len(BackRank) THEN b
    ELSE SeedBackRank(
            set_piece(set_piece(b, Square(i - 1, 0), Some(Piece("Blue", BackRank[i]))),
                      Square(i - 1, b.height - 1), Some(Piece("Red", BackRank[i]))),
            i + 1)

RECURSIVE SeedFiles(_, _, _, _, _)
SeedFiles(b, files, i, kind, blueRank) ==
    IF i > Len(files) THEN b
    ELSE SeedFiles(
            set_piece(set_piece(b, Square(files[i], blueRank), Some(Piece("Blue", kind))),
                      Square(files[i], b.height - 1 - blueRank), Some(Piece("Red", kind))),
            files, i + 1, kind, blueRank)

\* A plausible slip of the seeding: the soldiers put on the rank of the cannons
setup_initial_positions_soldiers_with_cannons(b) ==
    SeedFiles(SeedFiles(SeedBackRank(b, 1), CannonFiles, 1, "Cannon", 2),
              SoldierFiles, 1, "Soldier", 2)

\* BoardState::setup_initial_positions
setup_initial_positions(b) ==
    SeedFiles(SeedFiles(SeedBackRank(b, 1), CannonFiles, 1, "Cannon", 2),
              SoldierFiles, 1, "Soldier", 3)

\* BoardState::initial
initial == setup_initial_positions(empty)

-----------------------------------------------------------------------------
(* ui.rs: screen coordinates *)

\* pub const BOARD_FILES / BOARD_RANKS
BOARD_FILES == <<40, 125, 200, 280, 360, 440, 520, 600, 680>>
BOARD_RANKS == <<880, 800, 740, 670, 600, 530, 450, 380, 300, 240>>

\* square_to_point: `BOARD_FILES.get(file)?`, `BOARD_RANKS.get(rank)?`
square_to_point(square) ==
    IF square.file < Len(BOARD_FILES) /\ square.rank < Len(BOARD_RANKS)
    THEN Some([x |-> BOARD_FILES[square.file + 1], y |-> BOARD_RANKS[square.rank + 1]])
    ELSE None

-----------------------------------------------------------------------------
(* game.rs: GameSnapshot *)

Move(from, to, confidence) ==
    [from |-> from, to |-> to, promotion |-> None, confidence |-> confidence]

\* GameSnapshot::default, without the wall-clock created_at
default_snapshot ==
    [board |-> initial, ply |-> 0, last_move |-> None, phase |-> "Opening"]

\* GameSnapshot::apply_move: Result<(), String> plus the snapshot afterwards.
apply_move(snap, side, mv) ==
    LET moving_piece == piece_at(snap.board, mv.from)
        moved        == move_piece(snap.board, mv.from, mv.to)
    IN  IF moving_piece = None
        THEN [ok |-> FALSE, err |-> "origin_empty", snapshot |-> snap]
        ELSE IF Unwrap(moving_piece).owner # side
        THEN [ok |-> FALSE, err |-> "not_owner", snapshot |-> snap]
        ELSE IF ~moved.ok
        THEN [ok |-> FALSE, err |-> moved.err, snapshot |-> [snap EXCEPT !.board = moved.board]]
        ELSE [ok |-> TRUE, err |-> "",
              snapshot |-> [snap EXCEPT !.board = [moved.board EXCEPT !.side_to_move = opponent(side)],
                                        !.last_move = Some(mv),
                                        !.ply = snap.ply + 1]]

-----------------------------------------------------------------------------
(* minerva-engine: RuleBasedEngine *)

RECURSIVE ConcatFrom(_, _)
ConcatFrom(ss, i) == IF i > Len(ss) THEN <<>> ELSE ss[i] \o ConcatFrom(ss, i + 1)

\* Vec::append over a list of lists, in order
ConcatAll(ss) == ConcatFrom(ss, 1)

\* A plausible slip of piece_value: the values of chariot and cannon exchanged.
piece_value_exchanged(piece) ==
    CASE piece.kind = "General"  -> 10000
      [] piece.kind = "Guard"    -> 30
      [] piece.kind = "Elephant" -> 50
      [] piece.kind = "Horse"    -> 70
      [] piece.kind = "Chariot"  -> 90
      [] piece.kind = "Cannon"   -> 130
      [] piece.kind = "Soldier"  -> 10

\* fn piece_value, in tenths
piece_value(piece) ==
    CASE piece.kind = "General"  -> 10000
      [] piece.kind = "Guard"    -> 30
      [] piece.kind = "Elephant" -> 50
      [] piece.kind = "Horse"    -> 70
      [] piece.kind = "Chariot"  -> 130
      [] piece.kind = "Cannon"   -> 90
      [] piece.kind = "Soldier"  -> 10

\* fn candidate: capture.map(piece_value).unwrap_or(0.1), in tenths
candidate(from, to, capture) ==
    LET score == IF IsSome(capture) THEN piece_value(Unwrap(capture)) ELSE 1
    IN  [mv |-> Move(from, to, Some(score)), score |-> score, depth |-> 1]

\* A plausible slip of the destination test: any occupied square is a capture
EmptyOrEnemy_or_own(b, side, to) == TRUE

\* `board.is_empty(to) || board.piece_at(to).map(|p| p.owner != side).unwrap_or(false)`
EmptyOrEnemy(b, side, to) ==
    is_empty(b, to) \/ (IsSome(piece_at(b, to)) /\ Unwrap(piece_at(b, to)).owner # side)

\* `if let Some(to) = from.offset(df, dr) { if empty-or-enemy { push } }`
StepTo(b, side, from, df, dr) ==
    LET to == offset(from, df, dr)
    IN  IF IsSome(to) /\ EmptyOrEnemy(b, side, Unwrap(to))
        THEN <<candidate(from, Unwrap(to), piece_at(b, Unwrap(to)))>>
        ELSE <<>>

\* u8::saturating_sub
saturating_sub(a, b) == IF a >= b THEN a - b ELSE 0

\* A plausible slip of the river test: Red is let sideways one rank early.
CrossedRiver_one_rank_early(b, side, from) ==
    LET river_rank == b.height \div 2
    IN  \/ side = "Blue" /\ from.rank >= river_rank
        \/ side = "Red" /\ from.rank <= river_rank

\* The river test of soldier_moves
CrossedRiver(b, side, from) ==
    LET river_rank == b.height \div 2
    IN  \/ side = "Blue" /\ from.rank >= river_rank
        \/ side = "Red" /\ from.rank <= saturating_sub(river_rank, 1)

\* fn soldier_moves
soldier_moves(b, side, from) ==
    LET forward == IF side = "Blue" THEN 1 ELSE -1
    IN  StepTo(b, side, from, 0, forward)
        \o (IF CrossedRiver(b, side, from)
            THEN StepTo(b, side, from, -1, 0) \o StepTo(b, side, from, 1, 0)
            ELSE <<>>)

\* `let directions = [(1, 0), (-1, 0), (0, 1), (0, -1)]`
Cardinal == <<<<1, 0>>, <<-1, 0>>, <<0, 1>>, <<0, -1>>>>

\* A plausible slip of the chariot's ray: the blocker is taken whoever owns it.
RECURSIVE RookRay_takes_any(_, _, _, _, _)
RookRay_takes_any(b, side, from, current, d) ==
    LET next == offset(current, d[1], d[2])
    IN  IF next = None THEN <<>>
        ELSE LET piece == piece_at(b, Unwrap(next))
             IN  IF IsSome(piece)
                 THEN <<candidate(from, Unwrap(next), piece)>>
                 ELSE <<candidate(from, Unwrap(next), None)>>
                      \o RookRay_takes_any(b, side, from, Unwrap(next), d)

\* The `while let Some(next) = current.offset(df, dr)` loop of rook_like_moves
RECURSIVE RookRay(_, _, _, _, _)
RookRay(b, side, from, current, d) ==
    LET next == offset(current, d[1], d[2])
    IN  IF next = None THEN <<>>
        ELSE LET piece == piece_at(b, Unwrap(next))
             IN  IF IsSome(piece)
                 THEN (IF Unwrap(piece).owner # side
                       THEN <<candidate(from, Unwrap(next), piece)>>
                       ELSE <<>>)
                 ELSE <<candidate(from, Unwrap(next), None)>>
                      \o RookRay(b, side, from, Unwrap(next), d)

\* fn rook_like_moves
rook_like_moves(b, side, from) ==
    ConcatAll([i \in 1 .. Len(Cardinal) |-> RookRay(b, side, from, from, Cardinal[i])])

\* The `while let` loop of cannon_moves, with its screen_found flag
RECURSIVE CannonRay(_, _, _, _, _, _)
CannonRay(b, side, from, current, d, screen_found) ==
    LET next == offset(current, d[1], d[2])
    IN  IF next = None THEN <<>>
        ELSE LET piece == piece_at(b, Unwrap(next))
             IN  IF IsSome(piece)
                 THEN (IF ~screen_found
                       THEN CannonRay(b, side, from, Unwrap(next), d, TRUE)
                       ELSE (IF Unwrap(piece).owner # side
                             THEN <<candidate(from, Unwrap(next), piece)>>
                             ELSE <<>>))
                 ELSE (IF ~screen_found
                       THEN <<candidate(from, Unwrap(next), None)>>
                       ELSE <<>>)
                      \o CannonRay(b, side, from, Unwrap(next), d, screen_found)

\* fn cannon_moves
cannon_moves(b, side, from) ==
    ConcatAll([i \in 1 .. Len(Cardinal) |-> CannonRay(b, side, from, from, Cardinal[i], FALSE)])

\* `let patterns = [((1, 0), (1, 1)), ...]`: <<leg, dest>>
HorsePatterns ==
    << <<<<1, 0>>, <<1, 1>>>>,   <<<<1, 0>>, <<1, -1>>>>,
       <<<<-1, 0>>, <<-1, 1>>>>, <<<<-1, 0>>, <<-1, -1>>>>,
       <<<<0, 1>>, <<1, 1>>>>,   <<<<0, 1>>, <<-1, 1>>>>,
       <<<<0, -1>>, <<1, -1>>>>, <<<<0, -1>>, <<-1, -1>>>> >>

\* A plausible slip of the horse's pattern: the leg square is not looked at.
HorsePattern_ignores_leg(b, side, from, pat) ==
    LET leg   == pat[1]
        dest  == pat[2]
        block == offset(from, leg[1], leg[2])
    IN  IF IsSome(block)
        THEN LET to == offset(Unwrap(block), dest[1], dest[2])
             IN  IF IsSome(to) /\ EmptyOrEnemy(b, side, Unwrap(to))
                 THEN <<candidate(from, Unwrap(to), piece_at(b, Unwrap(to)))>>
                 ELSE <<>>
        ELSE <<>>

\* The body of the `for (leg, dest) in patterns` loop of horse_moves
HorsePattern(b, side, from, pat) ==
    LET leg   == pat[1]
        dest  == pat[2]
        block == offset(from, leg[1], leg[2])
    IN  IF IsSome(block) /\ is_empty(b, Unwrap(block))
        THEN LET to == offset(Unwrap(block), dest[1], dest[2])
             IN  IF IsSome(to) /\ EmptyOrEnemy(b, side, Unwrap(to))
                 THEN <<candidate(from, Unwrap(to), piece_at(b, Unwrap(to)))>>
                 ELSE <<>>
        ELSE <<>>

\* fn horse_moves
horse_moves(b, side, from) ==
    ConcatAll([i \in 1 .. Len(HorsePatterns) |-> HorsePattern(b, side, from, HorsePatterns[i])])

\* `let palace_files = [3u8, 4, 5]`
palace_files == {3, 4, 5}

\* A plausible slip of the palace of Red: its ranks counted from height - 2
palace_ranks_one_rank_low(b, side) ==
    IF side = "Blue" THEN {0, 1, 2} ELSE {b.height - 2, b.height - 3, b.height - 4}

\* `let palace_ranks = match side { .. }`
palace_ranks(b, side) ==
    IF side = "Blue" THEN {0, 1, 2} ELSE {b.height - 1, b.height - 2, b.height - 3}

\* `let directions = match kind { .. }` of palace_moves
PalaceDirections(kind) ==
    IF kind \in {"Guard", "General"}
    THEN <<<<1, 0>>, <<-1, 0>>, <<0, 1>>, <<0, -1>>, <<1, 1>>, <<-1, 1>>, <<1, -1>>, <<-1, -1>>>>
    ELSE IF kind = "Elephant"
    THEN <<<<2, 2>>, <<2, -2>>, <<-2, 2>>, <<-2, -2>>>>
    ELSE <<>>

\* The body of the `for (df, dr) in directions` loop of palace_moves
PalaceStep(b, side, from, d) ==
    LET to == offset(from, d[1], d[2])
    IN  IF /\ IsSome(to)
           /\ Unwrap(to).file \in palace_files
           /\ Unwrap(to).rank \in palace_ranks(b, side)
           /\ EmptyOrEnemy(b, side, Unwrap(to))
        THEN <<candidate(from, Unwrap(to), piece_at(b, Unwrap(to)))>>
        ELSE <<>>

\* fn palace_moves
palace_moves(b, side, from, kind) ==
    LET directions == PalaceDirections(kind)
    IN  ConcatAll([i \in 1 .. Len(directions) |-> PalaceStep(b, side, from, directions[i])])

\* The `match piece.kind` of generate_candidates, for one square of the scan
PieceMoves(b, side, square) ==
    LET piece == piece_at(b, square)
    IN  IF piece = None \/ Unwrap(piece).owner # side THEN <<>>
        ELSE CASE Unwrap(piece).kind = "Soldier" -> soldier_moves(b, side, square)
               [] Unwrap(piece).kind = "Chariot" -> rook_like_moves(b, side, square)
               [] Unwrap(piece).kind = "Horse"   -> horse_moves(b, side, square)
               [] Unwrap(piece).kind = "Cannon"  -> cannon_moves(b, side, square)
               [] Unwrap(piece).kind \in {"Guard", "Elephant", "General"} ->
                      palace_moves(b, side, square, Unwrap(piece).kind)

\* The squares on which the scan `for rank .. for file ..` finds a piece of
\* side (`if let Some(piece) = board.piece_at(square)` and the owner test)
OwnedSquares(b, side) ==
    SelectSeq(ScanOrder(b.width, b.height),
              LAMBDA square : IsSome(piece_at(b, square))
                              /\ Unwrap(piece_at(b, square)).owner = side)

\* A plausible slip of default_hold_move: the owner of the piece is not tested.
default_hold_move_any_owner(b, side) ==
    LET held == SelectSeq(ScanOrder(b.width, b.height),
                          LAMBDA square : IsSome(piece_at(b, square)))
    IN  IF held = <<>> THEN None
        ELSE Some([mv |-> Move(held[1], held[1], Some(0)), score |-> 0, depth |-> 0])

\* fn default_hold_move: the first owned square of the scan, if any
default_hold_move(b, side) ==
    LET owned == OwnedSquares(b, side)
    IN  IF owned = <<>> THEN None
        ELSE Some([mv |-> Move(owned[1], owned[1], Some(0)), score |-> 0, depth |-> 0])

\* A plausible slip of generate_candidates: the hold move is taken from the
\* last owned square of the scan.
generate_candidates_hold_last(b, side) ==
    LET owned == OwnedSquares(b, side)
        moves == ConcatAll([i \in 1 .. Len(owned) |-> PieceMoves(b, side, owned[i])])
        held  == owned[Len(owned)]
    IN  IF moves # <<>> THEN moves
        ELSE IF owned = <<>> THEN <<>>
        ELSE <<[mv |-> Move(held, held, Some(0)), score |-> 0, depth |-> 0]>>

\* fn generate_candidates
generate_candidates(b, side) ==
    LET owned == OwnedSquares(b, side)
        moves == ConcatAll([i \in 1 .. Len(owned) |-> PieceMoves(b, side, owned[i])])
    IN  IF moves = <<>> THEN default_hold_move(b, side) ELSE moves

\* A plausible slip of the sort: equal-scored candidates come out in reverse
\* enumeration order (an unstable sort).
sort_by_score_unstable(cs) ==
    LET n    == Len(cs)
        slot == [i \in 1 .. n |->
                    Cardinality({j \in 1 .. n : cs[j].score > cs[i].score})
                    + Cardinality({j \in (i + 1) .. n : cs[j].score = cs[i].score})
                    + 1]
    IN  [k \in 1 .. n |-> cs[CHOOSE i \in 1 .. n : slot[i] = k]]

\* `candidates.sort_by(|a, b| b.score.partial_cmp(&a.score).unwrap_or(Equal))`:
\* slice::sort_by is a stable sort, so an element lands behind every element
\* of greater score and behind the equal-scored elements that preceded it.
sort_by_score(cs) ==
    LET n    == Len(cs)
        slot == [i \in 1 .. n |->
                    Cardinality({j \in 1 .. n : cs[j].score > cs[i].score})
                    + Cardinality({j \in 1 .. (i - 1) : cs[j].score = cs[i].score})
                    + 1]
    IN  [k \in 1 .. n |-> cs[CHOOSE i \in 1 .. n : slot[i] = k]]

\* RuleBasedEngine::evaluate_position
evaluate_position(ctx_snapshot, side) ==
    LET candidates == sort_by_score(generate_candidates(ctx_snapshot.board, side))
    IN  [ok            |-> TRUE,
         best_move     |-> IF candidates = <<>> THEN None ELSE Some(candidates[1].mv),
         candidates    |-> candidates,
         searched_nodes |-> 0,
         depth         |-> 1,
         duration_ms   |-> 5]

-----------------------------------------------------------------------------
(* Board calls: BoardState built and edited through its public interface *)

\* At most this many mutating board calls are made in one run.
MaxOps == 3

\* Squares outside the 9x10 grid that a caller can still name (Square holds two u8).
OffBoard == {Square(DEFAULT_WIDTH, 0)}

\* The set-up domains of the board runs: squares on both ends of the scan
\* order, and pieces that agree or differ in owner and in kind; on the empty
\* board and on the initial layout.
BoardRegions ==
    {[base    |-> b,
      squares |-> {Square(0, 0), Square(1, 0), Square(8, 9)},
      pieces  |-> {Piece("Blue", "Soldier"), Piece("Red", "Soldier"), Piece("Blue", "Chariot")}]
       : b \in {"empty", "initial"}}

NoCall ==
    [op |-> "none", side |-> None, from |-> Square(0, 0), to |-> Square(0, 0),
     before |-> empty, game |-> [ply |-> 0, last_move |-> None],
     ok |-> TRUE, err |-> "", captured |-> None]

NoDecision ==
    [ok |-> FALSE, best_move |-> None, candidates |-> <<>>,
     searched_nodes |-> 0, depth |-> 0, duration_ms |-> 0]

EngineIdle ==
    /\ evaluated = FALSE
    /\ ctx_side = "Blue"
    /\ decision = NoDecision

\* No orchestrator is built in the board and engine runs
OrchIdle ==
    /\ pc = "idle"
    /\ max_retries = 1
    /\ turn = 0
    /\ last_snapshot = None
    /\ snapshot = None
    /\ published = <<>>
    /\ recorded = <<>>
    /\ trace = <<>>
    /\ failure = None
    /\ applied_moves = 0

\* No publish call has been made yet
NoSend ==
    [event |-> None, transport |-> TRUE, sent |-> FALSE, recorded |-> FALSE, ok |-> TRUE]

\* Nothing ever subscribes to the event transport
NoConsumer ==
    /\ consumer = "none"
    /\ inbox = <<>>
    /\ last_send = NoSend

\* ControllerMetrics::default()
NoMetrics == [last_latency |-> None, successful_inputs |-> 0, failed_inputs |-> 0]

\* AdbController::new: nothing is called yet
NoController ==
    /\ metrics = NoMetrics
    /\ injection = <<>>

\* run_loop before its first iteration; kept_open is history: the loop has
\* gone on to another turn with should_close set
LoopStart ==
    [pc |-> "try_recv", should_close |-> FALSE, receiver_closed |-> FALSE,
     logs |-> <<>>, last_status |-> "waiting", exit |-> "none", kept_open |-> FALSE]

\* No terminal UI is started
NoTerminal ==
    /\ ui_channel = <<>>
    /\ ui_senders = {}
    /\ ui_main = "none"
    /\ ui_loop = LoopStart
    /\ ui_sent = <<>>
    /\ ui_handled = <<>>

InitBoardCalls(regions) ==
    /\ region \in regions
    /\ board = (IF region.base = "initial" THEN initial ELSE empty)
    /\ prev = board
    /\ nops = 0
    /\ edits = 0
    /\ last = NoCall
    /\ game = [ply |-> default_snapshot.ply, last_move |-> default_snapshot.last_move]
    /\ diffed = FALSE
    /\ diffs = <<>>
    /\ rdiffs = <<>>
    /\ inferred = None

Edited ==
    /\ nops' = nops + 1
    /\ edits' = edits + 1
    /\ diffed' = FALSE
    /\ diffs' = <<>>
    /\ rdiffs' = <<>>
    /\ inferred' = None
    /\ UNCHANGED <<prev, region>>

\* board.set_piece(square, piece)
SetPiece ==
    \E square \in region.squares \cup OffBoard :
    \E piece \in {None} \cup {Some(p) : p \in region.pieces} :
        /\ nops < MaxOps
        /\ ~evaluated
        /\ board' = set_piece(board, square, piece)
        /\ last' = NoCall
        /\ Edited
        /\ UNCHANGED game
        /\ UNCHANGED engineVars
        /\ UNCHANGED <<orchVars, netVars, adbVars, uiVars>>

\* board.move_piece(from, to)
MovePiece ==
    \E from \in region.squares \cup OffBoard :
    \E to \in region.squares \cup OffBoard :
        LET r == move_piece(board, from, to)
        IN  /\ nops < MaxOps
            /\ board' = r.board
            /\ last' = [op |-> "move_piece", side |-> None, from |-> from, to |-> to,
                        before |-> board, game |-> game,
                        ok |-> r.ok, err |-> r.err, captured |-> r.captured]
            /\ Edited
            /\ UNCHANGED game
            /\ UNCHANGED engineVars
            /\ UNCHANGED <<orchVars, netVars, adbVars, uiVars>>

\* snapshot.apply_move(side, &mv) on the GameSnapshot that holds board
ApplyMove ==
    \E side \in PlayerSide :
    \E from \in region.squares \cup OffBoard :
    \E to \in region.squares \cup OffBoard :
        LET snap == [default_snapshot EXCEPT !.board = board,
                                            !.ply = game.ply,
                                            !.last_move = game.last_move]
            r    == apply_move(snap, side, Move(from, to, None))
        IN  /\ nops < MaxOps
            /\ board' = r.snapshot.board
            /\ game' = [ply |-> r.snapshot.ply, last_move |-> r.snapshot.last_move]
            /\ last' = [op |-> "apply_move", side |-> Some(side), from |-> from, to |-> to,
                        before |-> board, game |-> game,
                        ok |-> r.ok, err |-> r.err, captured |-> None]
            /\ Edited
            /\ UNCHANGED engineVars
            /\ UNCHANGED <<orchVars, netVars, adbVars, uiVars>>

\* let prev = board.clone()
Clone ==
    /\ edits > 0
    /\ prev' = board
    /\ edits' = 0
    /\ diffed' = FALSE
    /\ diffs' = <<>>
    /\ rdiffs' = <<>>
    /\ inferred' = None
    /\ UNCHANGED <<board, region, nops, last, game>>
    /\ UNCHANGED engineVars
    /\ UNCHANGED <<orchVars, netVars, adbVars, uiVars>>

\* prev.differences(&board), board.differences(&prev), infer_move_from_diffs
Differences ==
    /\ ~diffed
    /\ diffed' = TRUE
    /\ diffs' = differences(prev, board)
    /\ rdiffs' = differences(board, prev)
    /\ inferred' = infer_move_from_diffs(diffs')
    /\ UNCHANGED <<board, prev, region, nops, edits, last, game>>
    /\ UNCHANGED engineVars
    /\ UNCHANGED <<orchVars, netVars, adbVars, uiVars>>

vars == <<boardVars, engineVars, orchVars, netVars, adbVars, uiVars>>

InitBoard ==
    InitBoardCalls(BoardRegions) /\ EngineIdle /\ OrchIdle /\ NoConsumer /\ NoController /\ NoTerminal

NextBoard ==
    \/ SetPiece
    \/ MovePiece
    \/ Clone
    \/ Differences

SpecBoard == InitBoard /\ [][NextBoard]_vars

\* Board calls on the board of a GameSnapshot, next to apply_move calls on
\* the snapshot itself
NextGame ==
    \/ SetPiece
    \/ MovePiece
    \/ ApplyMove

SpecGame == InitBoard /\ [][NextGame]_vars

-----------------------------------------------------------------------------
(* Engine calls: evaluate_position on boards set up through set_piece *)

\* The set-up domains of the engine runs.  Each names the squares and the
\* pieces the set_piece calls of one run draw from.
EngineRegions ==
    { \* a rank along which chariots and cannons slide
      [base    |-> "empty",
       squares |-> {Square(0, 0), Square(1, 0), Square(2, 0), Square(3, 0), Square(4, 0)},
       pieces  |-> {Piece("Blue", "Cannon"), Piece("Blue", "Chariot"),
                    Piece("Blue", "Soldier"), Piece("Red", "Horse")}],
      \* a file across the river, for sliders and for soldiers of both sides
      [base    |-> "empty",
       squares |-> {Square(4, 3), Square(4, 4), Square(4, 5), Square(4, 6), Square(4, 7)},
       pieces  |-> {Piece("Red", "Cannon"), Piece("Red", "Soldier"),
                    Piece("Blue", "Soldier"), Piece("Blue", "Chariot")}],
      \* soldiers next to each other on the two ranks at the river
      [base    |-> "empty",
       squares |-> {Square(0, 4), Square(1, 4), Square(0, 5), Square(1, 5), Square(8, 9)},
       pieces  |-> {Piece("Red", "Soldier"), Piece("Blue", "Soldier"), Piece("Red", "Guard")}],
      \* a horse in mid-board with two of its legs and their destinations
      [base    |-> "empty",
       squares |-> {Square(4, 4), Square(4, 5), Square(5, 6), Square(3, 4), Square(2, 3)},
       pieces  |-> {Piece("Blue", "Horse"), Piece("Red", "Horse"),
                    Piece("Blue", "Soldier"), Piece("Red", "Guard")}],
      \* a horse in the corner, where legs and destinations leave the grid
      [base    |-> "empty",
       squares |-> {Square(0, 0), Square(1, 0), Square(0, 1), Square(2, 1), Square(1, 2)},
       pieces  |-> {Piece("Blue", "Horse"), Piece("Red", "Horse"), Piece("Red", "Elephant")}],
      \* the palace of Blue and the squares just outside it
      [base    |-> "empty",
       squares |-> {Square(3, 0), Square(4, 1), Square(5, 2), Square(4, 3), Square(6, 2)},
       pieces  |-> {Piece("Blue", "General"), Piece("Blue", "Guard"),
                    Piece("Blue", "Elephant"), Piece("Red", "Soldier")}],
      \* the palace of Red and the squares just outside it
      [base    |-> "empty",
       squares |-> {Square(5, 9), Square(4, 8), Square(3, 7), Square(4, 6), Square(2, 7)},
       pieces  |-> {Piece("Red", "General"), Piece("Red", "Guard"),
                    Piece("Red", "Elephant"), Piece("Blue", "Soldier")}],
      \* one attacker and every kind of piece it can take
      [base    |-> "empty",
       squares |-> {Square(8, 0), Square(8, 1)},
       pieces  |-> {Piece("Blue", "Chariot")} \cup {Piece("Red", k) : k \in PieceKind}],
      \* the initial layout, with a square in front of the back rank
      [base    |-> "initial",
       squares |-> {Square(0, 1), Square(0, 3)},
       pieces  |-> {Piece("Red", "Soldier")}] }

\* engine.evaluate_position(&TurnContext { snapshot, side })
Evaluate ==
    \E side \in PlayerSide :
        /\ ~evaluated
        /\ evaluated' = TRUE
        /\ ctx_side' = side
        /\ decision' = evaluate_position([default_snapshot EXCEPT !.board = board], side)
        /\ UNCHANGED boardVars
        /\ UNCHANGED <<orchVars, netVars, adbVars, uiVars>>

InitEngine ==
    InitBoardCalls(EngineRegions) /\ EngineIdle /\ OrchIdle /\ NoConsumer /\ NoController /\ NoTerminal

NextEngine ==
    \/ SetPiece
    \/ Evaluate

SpecEngine == InitEngine /\ [][NextEngine]_vars

-----------------------------------------------------------------------------
(* minerva-orchestrator: boot(), run() and play_turn() *)

\* At most this many turns are configured (max_retries is a u8 that
\* MinervaConfig::validate keeps above zero).
MaxRetries == 3

\* SystemEvent with a LifecycleEvent payload, without id and timestamp
LifecycleEvent(phase) ==
    [kind |-> "Lifecycle", phase |-> phase, nodes |-> 0, depth |-> 0, best_line |-> <<>>]

\* SystemEvent with the EngineEvent payload play_turn builds from the decision
EngineEvent(d) ==
    [kind |-> "EngineDecision", phase |-> "", nodes |-> d.searched_nodes, depth |-> d.depth,
     best_line |-> [i \in 1 .. Len(d.candidates) |-> d.candidates[i].mv]]

\* `start_flow_action(Apply), start_flow_action(ConfirmYes), start_flow_action(ConfirmOk)`
StartFlowActions == <<"Apply", "ConfirmYes", "ConfirmOk">>

\* `formation_action(formation), formation_confirm_action()`
FormationActions == <<"Formation", "FormationConfirm">>

\* One call on a collaborator, as the trace keeps it
Call(name, arg, ok) == [call |-> name, turn |-> turn, arg |-> arg, ok |-> ok]

\* A plausible slip of boot(): `let _ = expr;` - the Result is dropped and
\* the next step runs whatever the call returned.
Try_drops_result(ok, next) == next

\* `expr?` in boot() and run(): go on after Ok, return the error after Err
Try(ok, next) == IF ok THEN next ELSE "failed"

\* A plausible slip of the loop of run(): the error of a turn is logged and
\* the loop goes on to the next turn.
AfterTurn_next_turn(ok, t) == [pc |-> "loop", turn |-> t + 1]

\* `self.play_turn().await?` in the loop of run(): the next iteration after
\* Ok, the error out of run() after Err
AfterTurn(ok, t) ==
    IF ok THEN [pc |-> "loop", turn |-> t + 1] ELSE [pc |-> "failed", turn |-> t]

\* `expr?` inside play_turn: go on after Ok, return the error to run() after Err
TurnTry(ok, next) == IF ok THEN [pc |-> next, turn |-> turn] ELSE AfterTurn(FALSE, turn)

\* A plausible slip of the loop bounds of run(): `0..=max_retries`
InRange_inclusive(t, n) == t <= n

\* `for turn in 0..self.config.max_retries`
InRange(t, n) == t < n

\* The error a failing call returns is the one boot()/run() return
Returned(name, ok) ==
    IF ok \/ IsSome(failure) THEN failure ELSE Some([step |-> name, turn |-> turn])

\* A call on a collaborator that returns Ok(()) or Err
Called(name, arg, ok) ==
    /\ trace' = Append(trace, Call(name, arg, ok))
    /\ failure' = Returned(name, ok)

\* The events the broadcast channel keeps for a receiver that does not read
\* (LocalServer::new(capacity); the program passes 64)
ChannelCapacity == 2

\* tokio broadcast Sender::send: Err when no receiver is subscribed
send(subscriber) == subscriber = "subscribed"

\* The channel after a successful send: the event is queued for the receiver,
\* which loses the oldest queued event once it lags by the capacity
Buffered(queue, event) ==
    IF Len(queue) < ChannelCapacity
    THEN Append(queue, event)
    ELSE Append(Tail(queue), event)

\* A plausible slip of the transport: a bounded queue whose sender waits
\* for room (`tx.send(event).await` on an mpsc channel).
CanSend_waits_for_room(queue) == Len(queue) < ChannelCapacity

\* broadcast::Sender::send is not async: it returns at once, whatever the
\* receivers have read
CanSend(queue) == TRUE

\* A plausible slip of LocalServer::publish: `self.tx.send(event)?`
LocalPublish_propagates(sent) == sent

\* LocalServer::publish: `let _ = self.tx.send(event); Ok(())`
LocalPublish(sent) == TRUE

\* RealtimeServer::publish as the orchestrator sees it: `ok` tells whether
\* the transport is in working order (an implementation other than
\* LocalServer may return Err), and LocalServer adds its send
network_publish(ok) == ok /\ LocalPublish(send(consumer))

\* TelemetryStore::record_event: push under the lock, then Ok(())
record_event(events, event) == [ok |-> TRUE, events |-> Append(events, event)]

\* The Result of Orchestrator::publish: `self.network.publish(event).await?;
\* self.telemetry.record_event(cloned).await?; Ok(())`
publish_result(ok) ==
    network_publish(ok) /\ record_event(recorded, None).ok

\* Orchestrator::publish: what it does to transport, telemetry and trace
publish(event, ok) ==
    LET sent == ok /\ send(consumer)
        net  == network_publish(ok)
        rec  == record_event(recorded, event)
    IN  /\ CanSend(inbox)
        /\ Called("publish", <<event>>, publish_result(ok))
        /\ published' = (IF net THEN Append(published, event) ELSE published)
        /\ recorded' = (IF net THEN rec.events ELSE recorded)
        /\ inbox' = (IF sent THEN Buffered(inbox, event) ELSE inbox)
        /\ last_send' = [event     |-> Some(event),
                         transport |-> ok,
                         sent      |-> sent,
                         recorded  |-> net,
                         ok        |-> publish_result(ok)]
        /\ UNCHANGED consumer

\* The piece placements recognize_tiles reads off a frame: nothing; a soldier
\* of each side face to face; a guard of each side outside its palace.
RecognizedTiles ==
    { empty.pieces,
      set_piece(set_piece(empty, Square(4, 4), Some(Piece("Blue", "Soldier"))),
                Square(4, 5), Some(Piece("Red", "Soldier"))).pieces,
      set_piece(set_piece(empty, Square(0, 0), Some(Piece("Blue", "Guard"))),
                Square(8, 9), Some(Piece("Red", "Guard"))).pieces }

\* A plausible slip of the recognizer: the snapshot it returns starts from
\* GameSnapshot::default() every time
recognize_from_default(tiles, hints) ==
    [default_snapshot EXCEPT !.board = [empty EXCEPT !.pieces = tiles]]

\* TemplateMatchingRecognizer::recognize: an empty board that takes
\* side_to_move from the hinted snapshot and its pieces from the tiles, put
\* into a copy of the hinted snapshot (or of the default one)
recognize(tiles, hints) ==
    LET recognized == [empty EXCEPT
                          !.side_to_move = IF IsSome(hints)
                                           THEN Unwrap(hints).board.side_to_move
                                           ELSE empty.side_to_move,
                          !.pieces = tiles]
        base       == IF IsSome(hints) THEN Unwrap(hints) ELSE default_snapshot
    IN  [base EXCEPT !.board = recognized]

\* Moves a GameEngine other than RuleBasedEngine may answer with
ScriptedMoves ==
    { Move(Square(1, 1), Square(1, 2), None),
      Move(Square(4, 5), Square(4, 4), None),
      Move(Square(4, 4), Square(4, DEFAULT_HEIGHT), None) }

\* The EngineDecision of such an engine
Scripted(mv) ==
    [ok |-> TRUE, best_move |-> Some(mv),
     candidates |-> <<[mv |-> mv, score |-> 0, depth |-> 1]>>,
     searched_nodes |-> 1, depth |-> 1, duration_ms |-> 0]

\* The decisions `E: GameEngine` may return for a position
EngineDecisions(snap, side) ==
    {evaluate_position(snap, side)} \cup {Scripted(mv) : mv \in ScriptedMoves}

\* Orchestrator::new, before boot() is called
OrchNew ==
    /\ pc = "init_tracing"
    /\ max_retries \in 1 .. MaxRetries
    /\ turn = 0
    /\ last_snapshot = None
    /\ snapshot = None
    /\ published = <<>>
    /\ recorded = <<>>
    /\ trace = <<>>
    /\ failure = None
    /\ applied_moves = 0

\* What a call of boot() before the first publish leaves alone
BootFrame ==
    /\ UNCHANGED <<applied_moves, max_retries, turn, last_snapshot, snapshot, published, recorded>>
    /\ UNCHANGED <<boardVars, engineVars, netVars, adbVars, uiVars>>

\* init_tracing(&full_config.ops)?
InitTracing ==
    \E ok \in BOOLEAN :
        /\ pc = "init_tracing"
        /\ pc' = Try(ok, "ensure_telemetry_dir")
        /\ Called("init_tracing", <<>>, ok)
        /\ BootFrame

\* ensure_telemetry_dir(&full_config.ops.telemetry_dir)?
EnsureTelemetryDir ==
    \E ok \in BOOLEAN :
        /\ pc = "ensure_telemetry_dir"
        /\ pc' = Try(ok, "connect")
        /\ Called("ensure_telemetry_dir", <<>>, ok)
        /\ BootFrame

\* self.controller.connect().await?
Connect ==
    \E ok \in BOOLEAN :
        /\ pc = "connect"
        /\ pc' = Try(ok, "start_flow")
        /\ Called("connect", <<>>, ok)
        /\ BootFrame

\* perform_start_sequence: the first inject_actions
InjectStartFlow ==
    \E ok \in BOOLEAN :
        /\ pc = "start_flow"
        /\ pc' = Try(ok, "formation")
        /\ Called("inject_actions", StartFlowActions, ok)
        /\ BootFrame

\* perform_start_sequence: the second inject_actions
InjectFormation ==
    \E ok \in BOOLEAN :
        /\ pc = "formation"
        /\ pc' = Try(ok, "warm_up")
        /\ Called("inject_actions", FormationActions, ok)
        /\ BootFrame

\* self.engine.warm_up().await?
WarmUp ==
    \E ok \in BOOLEAN :
        /\ pc = "warm_up"
        /\ pc' = Try(ok, "network_run")
        /\ Called("warm_up", <<>>, ok)
        /\ BootFrame

\* self.network.run().await?
NetworkRun ==
    \E ok \in BOOLEAN :
        /\ pc = "network_run"
        /\ pc' = Try(ok, "publish_boot")
        /\ Called("run", <<>>, ok)
        /\ BootFrame

\* self.publish(lifecycle).await? at the end of boot(); run() is called next
PublishBoot ==
    \E ok \in BOOLEAN :
        /\ pc = "publish_boot"
        /\ pc' = Try(publish_result(ok), "publish_start")
        /\ publish(LifecycleEvent("Boot"), ok)
        /\ UNCHANGED <<applied_moves, max_retries, turn, last_snapshot, snapshot>>
        /\ UNCHANGED <<boardVars, engineVars, adbVars, uiVars>>

\* run(): self.publish(start_event).await?
PublishStart ==
    \E ok \in BOOLEAN :
        /\ pc = "publish_start"
        /\ pc' = Try(publish_result(ok), "loop")
        /\ publish(LifecycleEvent("MatchStart"), ok)
        /\ UNCHANGED <<applied_moves, max_retries, turn, last_snapshot, snapshot>>
        /\ UNCHANGED <<boardVars, engineVars, adbVars, uiVars>>

\* play_turn: self.controller.capture_frame().await?, entered from the loop
\* of run() while turns remain
CaptureFrame ==
    \E ok \in BOOLEAN :
        LET r == TurnTry(ok, "recognize")
        IN  /\ pc = "loop"
            /\ InRange(turn, max_retries)
            /\ pc' = r.pc
            /\ turn' = r.turn
            /\ Called("capture_frame", <<>>, ok)
            /\ UNCHANGED <<applied_moves, max_retries, last_snapshot, snapshot, published, recorded>>
            /\ UNCHANGED netVars
            /\ UNCHANGED <<boardVars, engineVars, adbVars, uiVars>>

\* A plausible slip of recognize_board: `RecognitionHints::default()`
hints_forgotten(retained) == None

\* recognize_board: `RecognitionHints { previous_snapshot: self.last_snapshot.clone() }`
hints(retained) == retained

\* play_turn: self.recognize_board(&frame).await? with hints = last_snapshot,
\* then `self.last_snapshot = Some(snapshot.clone())` and `let side = ..`
\* (the differences in between are only logged)
Recognize ==
    \E ok \in BOOLEAN :
    \E tiles \in RecognizedTiles :
        LET r    == TurnTry(ok, "evaluate")
            snap == recognize(tiles, hints(last_snapshot))
        IN  /\ pc = "recognize"
            /\ pc' = r.pc
            /\ turn' = r.turn
            /\ Called("recognize", hints(last_snapshot), ok)
            /\ snapshot' = (IF ok THEN Some(snap) ELSE snapshot)
            /\ last_snapshot' = (IF ok THEN Some(snap) ELSE last_snapshot)
            /\ ctx_side' = (IF ok THEN snap.board.side_to_move ELSE ctx_side)
            /\ UNCHANGED <<applied_moves, max_retries, published, recorded>>
            /\ UNCHANGED netVars
            /\ UNCHANGED <<boardVars, evaluated, decision, adbVars, uiVars>>

\* A plausible slip of play_turn: a decision without a best move ends the turn
\* with an error.
AfterDecision_none_is_error(d) ==
    IF IsSome(d.best_move) THEN "tap_from" ELSE "failed"

\* play_turn: `if let Some(best_move) = decision.best_move.clone()` - the taps
\* when there is a best move, else on to the engine event
AfterDecision(d) ==
    IF IsSome(d.best_move) THEN "tap_from" ELSE "publish_decision"

\* play_turn: self.engine.evaluate_position(&TurnContext { snapshot, side }).await?
\* and the `if let Some(best_move)` that follows
EvaluatePosition ==
    /\ pc = "evaluate"
    /\ \E ok \in BOOLEAN :
       \E d \in EngineDecisions(Unwrap(snapshot), ctx_side) :
        LET r == TurnTry(ok, AfterDecision(d))
        IN  /\ pc' = r.pc
            /\ turn' = r.turn
            /\ Called("evaluate_position", <<>>, ok)
            /\ decision' = (IF ok THEN d ELSE decision)
            /\ UNCHANGED <<applied_moves, max_retries, last_snapshot, snapshot, published, recorded>>
            /\ UNCHANGED netVars
            /\ UNCHANGED <<boardVars, evaluated, ctx_side, adbVars, uiVars>>

\* apply_move: self.controller.tap_square(mv.from).await?
TapFrom ==
    \E ok \in BOOLEAN :
        LET r == TurnTry(ok, "tap_to")
        IN  /\ pc = "tap_from"
            /\ pc' = r.pc
            /\ turn' = r.turn
            /\ Called("tap_square", <<Unwrap(decision.best_move).from>>, ok)
            /\ UNCHANGED <<applied_moves, max_retries, last_snapshot, snapshot, published, recorded>>
            /\ UNCHANGED netVars
            /\ UNCHANGED <<boardVars, engineVars, adbVars, uiVars>>

\* A plausible slip of play_turn: `stored.apply_move(side, &best_move)?`
AfterApply_propagates(applied_ok) ==
    IF applied_ok THEN "publish_decision" ELSE "failed"

\* play_turn: `if let Err(err) = stored.apply_move(side, &best_move) { warn!(..) }`
\* - on to the engine event, whatever apply_move returned
AfterApply(applied_ok) == "publish_decision"

\* apply_move: self.controller.tap_square(mv.to).await?, then back in
\* play_turn `stored.apply_move(side, &best_move)` whose error is only logged
TapTo ==
    \E ok \in BOOLEAN :
        LET applied == apply_move(Unwrap(last_snapshot), ctx_side, Unwrap(decision.best_move))
            r       == TurnTry(ok, AfterApply(applied.ok))
        IN  /\ pc = "tap_to"
            /\ pc' = r.pc
            /\ turn' = r.turn
            /\ Called("tap_square", <<Unwrap(decision.best_move).to>>, ok)
            /\ last_snapshot' = (IF ok /\ IsSome(last_snapshot)
                                 THEN Some(applied.snapshot)
                                 ELSE last_snapshot)
            /\ applied_moves' = (IF ok /\ IsSome(last_snapshot) /\ applied.ok
                                 THEN applied_moves + 1
                                 ELSE applied_moves)
            /\ UNCHANGED <<max_retries, snapshot, published, recorded>>
            /\ UNCHANGED netVars
            /\ UNCHANGED <<boardVars, engineVars, adbVars, uiVars>>

\* play_turn: self.publish(engine_event).await?, after which play_turn
\* returns to the loop of run()
PublishDecision ==
    \E ok \in BOOLEAN :
        LET r == AfterTurn(publish_result(ok), turn)
        IN  /\ pc = "publish_decision"
            /\ pc' = r.pc
            /\ turn' = r.turn
            /\ publish(EngineEvent(decision), ok)
            /\ UNCHANGED <<applied_moves, max_retries, last_snapshot, snapshot>>
            /\ UNCHANGED <<boardVars, engineVars, adbVars, uiVars>>

\* run(): self.publish(end_event).await? once the loop is over, and Ok(())
PublishEnd ==
    \E ok \in BOOLEAN :
        /\ pc = "loop"
        /\ ~InRange(turn, max_retries)
        /\ pc' = Try(publish_result(ok), "done")
        /\ publish(LifecycleEvent("MatchEnd"), ok)
        /\ UNCHANGED <<applied_moves, max_retries, turn, last_snapshot, snapshot>>
        /\ UNCHANGED <<boardVars, engineVars, adbVars, uiVars>>

\* No board is set up through set_piece in the orchestrator runs
NoRegion == {[base |-> "empty", squares |-> {}, pieces |-> {}]}

InitOrch ==
    InitBoardCalls(NoRegion) /\ EngineIdle /\ OrchNew /\ NoConsumer /\ NoController /\ NoTerminal

NextOrch ==
    \/ InitTracing
    \/ EnsureTelemetryDir
    \/ Connect
    \/ InjectStartFlow
    \/ InjectFormation
    \/ WarmUp
    \/ NetworkRun
    \/ PublishBoot
    \/ PublishStart
    \/ CaptureFrame
    \/ Recognize
    \/ EvaluatePosition
    \/ TapFrom
    \/ TapTo
    \/ PublishDecision
    \/ PublishEnd

SpecOrch == InitOrch /\ [][NextOrch]_vars

-----------------------------------------------------------------------------
(* minerva-cli: the task that forwards events of the transport to the UI *)

\* What a step of the forwarding task leaves alone
ConsumerFrame == UNCHANGED <<boardVars, engineVars, orchVars, last_send, adbVars, uiVars>>

\* `let mut stream = ui_forward_network.subscribe()`, when the spawned task
\* first runs
Subscribe ==
    /\ consumer = "spawned"
    /\ consumer' = "subscribed"
    /\ inbox' = <<>>
    /\ ConsumerFrame

\* `while let Some(event) = stream.next().await { if ui_forward_tx.send(..)
\* .is_err() { break; } }`: one event is taken and handed to the UI channel;
\* the task ends when the UI no longer listens
Forward ==
    \E ui_ok \in BOOLEAN :
        /\ consumer = "subscribed"
        /\ inbox # <<>>
        /\ consumer' = (IF ui_ok THEN consumer ELSE "gone")
        /\ inbox' = (IF ui_ok THEN Tail(inbox) ELSE <<>>)
        /\ ConsumerFrame

\* `ui_forward_handle.abort()`, or the runtime dropping the task: the
\* receiver goes with it
Abort ==
    /\ consumer \in {"spawned", "subscribed"}
    /\ consumer' = "gone"
    /\ inbox' = <<>>
    /\ ConsumerFrame

\* run_application: the task is spawned before the orchestrator is built
SpawnedConsumer ==
    /\ consumer = "spawned"
    /\ inbox = <<>>
    /\ last_send = NoSend

InitFanout ==
    InitBoardCalls(NoRegion) /\ EngineIdle /\ OrchNew /\ SpawnedConsumer /\ NoController /\ NoTerminal

NextFanout ==
    \/ InitTracing
    \/ EnsureTelemetryDir
    \/ Connect
    \/ InjectStartFlow
    \/ InjectFormation
    \/ WarmUp
    \/ NetworkRun
    \/ PublishBoot
    \/ PublishStart
    \/ CaptureFrame
    \/ Recognize
    \/ EvaluatePosition
    \/ TapFrom
    \/ TapTo
    \/ PublishDecision
    \/ PublishEnd
    \/ Subscribe
    \/ Forward
    \/ Abort

SpecFanout == InitFanout /\ [][NextFanout]_vars

\* The steps of boot() and run() around the engine's evaluation
AwaitedCalls ==
    \/ InitTracing
    \/ EnsureTelemetryDir
    \/ Connect
    \/ InjectStartFlow
    \/ InjectFormation
    \/ WarmUp
    \/ NetworkRun
    \/ PublishBoot
    \/ PublishStart
    \/ CaptureFrame
    \/ Recognize
    \/ TapFrom
    \/ TapTo
    \/ PublishDecision
    \/ PublishEnd

\* The engine answers every evaluate_position call (weak fairness of
\* EvaluatePosition, which is enabled exactly while pc = "evaluate").
EngineAnswers == []<>(pc # "evaluate") \/ []<><<EvaluatePosition>>_vars

\* boot() and run() are driven to their end: every call they await returns,
\* provided it can be made at all.  Nothing is assumed of the forwarding
\* task, which may never run.
SpecFanoutFair == SpecFanout /\ WF_vars(AwaitedCalls) /\ EngineAnswers

-----------------------------------------------------------------------------
(* minerva-controller: AdbController::inject_actions *)

\* The longest list of actions given to one inject_actions call
MaxActions == 3

\* The number of inject_actions calls made on the controller
MaxCalls == 2

\* InputAction::Tap { x, y }
InputTap(x, y) == [kind |-> "Tap", x |-> x, y |-> y]

\* InputAction::Swipe { start, end, duration_ms }
InputSwipe(start, end, duration_ms) ==
    [kind |-> "Swipe", start |-> start, end |-> end, duration_ms |-> duration_ms]

\* InputAction::KeyEvent { code }
InputKeyEvent(code) == [kind |-> "KeyEvent", code |-> code]

\* The actions the calls draw their lists from: one of each kind
InputActions ==
    { InputTap(BOARD_FILES[1], BOARD_RANKS[1]),
      InputSwipe(<<BOARD_FILES[1], BOARD_RANKS[1]>>, <<BOARD_FILES[2], BOARD_RANKS[2]>>,
                 BOARD_FILES[3]),
      InputKeyEvent(DEFAULT_WIDTH - 5) }

\* The lists of at most MaxActions actions, the empty list included
ActionLists ==
    UNION { [1 .. n -> InputActions] : n \in 0 .. MaxActions }

\* One decimal digit as text
Digit(d) ==
    CASE d = 0 -> "0" [] d = 1 -> "1" [] d = 2 -> "2" [] d = 3 -> "3" [] d = 4 -> "4"
      [] d = 5 -> "5" [] d = 6 -> "6" [] d = 7 -> "7" [] d = 8 -> "8" [] d = 9 -> "9"

\* u32::to_string / u64::to_string: decimal, no sign, no leading zero
RECURSIVE to_string(_)
to_string(n) == IF n < 10 THEN Digit(n) ELSE to_string(n \div 10) \o Digit(n % 10)

\* The arguments inject_actions hands to run_shell for one action
ShellCommand(action) ==
    CASE action.kind = "Tap" ->
             <<"input", "tap", to_string(action.x), to_string(action.y)>>
      [] action.kind = "Swipe" ->
             <<"input", "swipe", to_string(action.start[1]), to_string(action.start[2]),
               to_string(action.end[1]), to_string(action.end[2]),
               to_string(action.duration_ms)>>
      [] action.kind = "KeyEvent" ->
             <<"input", "keyevent", to_string(action.code)>>

\* A slip of ensure_actions_present: every list passes
ensure_actions_present_accepts_empty(actions) == [ok |-> TRUE, err |-> ""]

\* ensure_actions_present(actions)
ensure_actions_present(actions) ==
    IF Len(actions) = 0
        THEN [ok |-> FALSE, err |-> "no input actions specified"]
        ELSE [ok |-> TRUE, err |-> ""]

\* AdbController::record_success: the times measured for the sample are left
\* out, the two fields it sets to zero are kept
record_success(m) ==
    [m EXCEPT !.last_latency = Some([observation_ms |-> 0, decision_ms |-> 0]),
              !.successful_inputs = @ + 1]

\* AdbController::record_failure
record_failure(m) == [m EXCEPT !.failed_inputs = @ + 1]

\* What one step of a call added to the two counters
Counted(c, m) ==
    [successful_inputs |-> c.counted.successful_inputs
                              + (m.successful_inputs - metrics.successful_inputs),
     failed_inputs |-> c.counted.failed_inputs
                              + (m.failed_inputs - metrics.failed_inputs)]

\* inject_actions is called with a list of actions: ensure_actions_present
\* returns the error at once, or the call reaches the head of its loop.
\* The controller is shared (&self), so a call may start while another is
\* suspended at an await.
InjectActions ==
    \E actions \in ActionLists :
        LET present == ensure_actions_present(actions)
            call == [actions |-> actions, next |-> 1, executed |-> <<>>,
                     counted |-> [successful_inputs |-> 0, failed_inputs |-> 0],
                     pc |-> IF present.ok THEN "for" ELSE "returned",
                     result |-> IF present.ok THEN None
                                ELSE Some([ok |-> FALSE, err |-> present.err])]
        IN  /\ Len(injection) < MaxCalls
            /\ injection' = Append(injection, call)
            /\ UNCHANGED metrics
            /\ UNCHANGED <<boardVars, engineVars, orchVars, netVars, uiVars>>

\* The head of `for action in &actions`: the next action's command is handed
\* to run_shell, or, the list being exhausted, record_success is called and
\* the call returns Ok.
ForAction ==
    \E i \in 1 .. Len(injection) :
        LET c == injection[i]
            more == c.next <= Len(c.actions)
            m == IF more THEN metrics ELSE record_success(metrics)
        IN  /\ c.pc = "for"
            /\ metrics' = m
            /\ injection' =
                   [injection EXCEPT ![i] =
                       IF more
                       THEN [c EXCEPT !.pc = "run_shell",
                                      !.executed = Append(@,
                                          [command |-> ShellCommand(c.actions[c.next]),
                                           exit |-> "pending"])]
                       ELSE [c EXCEPT !.pc = "returned",
                                      !.counted = Counted(c, m),
                                      !.result = Some([ok |-> TRUE, err |-> ""])]]
            /\ UNCHANGED <<boardVars, engineVars, orchVars, netVars, uiVars>>

\* run_shell returns: on an error record_failure is called and the call
\* returns that error, otherwise the call goes to its 10 ms sleep.
RunShell ==
    \E i \in 1 .. Len(injection) :
    \E ok \in BOOLEAN :
        LET c == injection[i]
            m == IF ok THEN metrics ELSE record_failure(metrics)
            done == [c.executed EXCEPT ![Len(c.executed)].exit = IF ok THEN "ok" ELSE "err"]
        IN  /\ c.pc = "run_shell"
            /\ metrics' = m
            /\ injection' =
                   [injection EXCEPT ![i] =
                       IF ok
                       THEN [c EXCEPT !.pc = "sleep", !.executed = done]
                       ELSE [c EXCEPT !.pc = "returned",
                                      !.executed = done,
                                      !.counted = Counted(c, m),
                                      !.result = Some([ok |-> FALSE, err |-> "Controller"])]]
            /\ UNCHANGED <<boardVars, engineVars, orchVars, netVars, uiVars>>

\* tokio::time::sleep(10 ms) is over: on to the next action
SleepOver ==
    \E i \in 1 .. Len(injection) :
        LET c == injection[i]
        IN  /\ c.pc = "sleep"
            /\ injection' = [injection EXCEPT ![i] = [c EXCEPT !.pc = "for", !.next = @ + 1]]
            /\ UNCHANGED metrics
            /\ UNCHANGED <<boardVars, engineVars, orchVars, netVars, uiVars>>

\* AdbController::new, with the rest of the program idle
InitAdb ==
    InitBoardCalls(NoRegion) /\ EngineIdle /\ OrchIdle /\ NoConsumer /\ NoController /\ NoTerminal

NextAdb ==
    \/ InjectActions
    \/ ForAction
    \/ RunShell
    \/ SleepOver

SpecAdb == InitAdb /\ [][NextAdb]_vars

-----------------------------------------------------------------------------
(* minerva-cli: the terminal UI loop and the channel that feeds it *)

\* const MAX_LOG_ENTRIES
MAX_LOG_ENTRIES == 120

\* The number of events the forwarding task receives from its stream
MaxEvents == 2

\* UiMessage::Event(event)
UiEvent(event) == [kind |-> "Event", event |-> event]

\* UiMessage::Shutdown
UiShutdown == [kind |-> "Shutdown", event |-> None]

\* The events the forwarding task's stream yields, by payload
StreamEvents == { [payload |-> "Lifecycle"], [payload |-> "Board"] }

\* summarize_status(event), as the status line's English sense
summarize_status(event) ==
    CASE event.payload = "Lifecycle" -> "lifecycle phase"
      [] event.payload = "Board" -> "board state updated"

\* format_event(event), without the timestamp
format_event(event) ==
    CASE event.payload = "Lifecycle" -> "Lifecycle::"
      [] event.payload = "Board" -> "Board snapshot"

\* The Receiver is owned by run_loop and dropped when run_loop returns
ReceiverAlive == ui_loop.pc # "exited"

\* Sender::send of the std mpsc channel: the message is queued while the
\* Receiver lives, and is returned in an error once the Receiver is dropped
ui_send(channel, message) ==
    IF ReceiverAlive
        THEN [ok |-> TRUE, channel |-> Append(channel, message)]
        ELSE [ok |-> FALSE, channel |-> channel]

\* Receiver::try_recv: the oldest queued message, else Disconnected when
\* every Sender is dropped, else Empty
try_recv(channel, senders) ==
    IF channel # <<>>
        THEN [kind |-> "Ok", message |-> Some(Head(channel)), channel |-> Tail(channel)]
        ELSE IF senders = {}
                 THEN [kind |-> "Disconnected", message |-> None, channel |-> channel]
                 ELSE [kind |-> "Empty", message |-> None, channel |-> channel]

\* A slip of the loop's exit test: a Shutdown message is enough
closing_on_shutdown(should_close, receiver_closed) == should_close

\* `should_close && receiver_closed`, the test made after draw and after poll
closing(should_close, receiver_closed) == should_close /\ receiver_closed

\* `logs.pop_front()` at MAX_LOG_ENTRIES, then `logs.push_back(formatted)`
push_log(logs, formatted) ==
    Append(IF Len(logs) = MAX_LOG_ENTRIES THEN Tail(logs) ELSE logs, formatted)

\* run_loop returns
Exited(reason) == [ui_loop EXCEPT !.pc = "exited", !.exit = reason]

UiFrame == UNCHANGED <<boardVars, engineVars, orchVars, netVars, adbVars>>

\* run_application has made the channel, cloned the Sender into the spawned
\* forwarding task and moved the Receiver into the UI thread; the
\* orchestrator is about to boot
StartedTerminal ==
    /\ ui_channel = <<>>
    /\ ui_senders = {"main", "forward"}
    /\ ui_main = "orchestrating"
    /\ ui_loop = LoopStart
    /\ ui_sent = <<>>
    /\ ui_handled = <<>>

\* orchestrator.boot fails: `?` returns from run_application, which drops
\* ui_tx without a Shutdown message and detaches the forwarding task
BootFails ==
    /\ ui_main = "orchestrating"
    /\ ui_main' = "failed"
    /\ ui_senders' = ui_senders \ {"main"}
    /\ UNCHANGED <<ui_channel, ui_loop, ui_sent, ui_handled>>
    /\ UiFrame

\* orchestrator.run has returned, with Ok or Err:
\* `let _ = ui_tx.ui_send(UiMessage::Shutdown)`
SendShutdown ==
    LET sent == ui_send(ui_channel, UiShutdown)
    IN  /\ ui_main = "orchestrating"
        /\ ui_main' = "sent"
        /\ ui_channel' = sent.channel
        /\ ui_sent' = (IF sent.ok THEN Append(ui_sent, UiShutdown) ELSE ui_sent)
        /\ UNCHANGED <<ui_senders, ui_loop, ui_handled>>
        /\ UiFrame

\* `drop(ui_tx)`
DropSender ==
    /\ ui_main = "sent"
    /\ ui_main' = "dropped"
    /\ ui_senders' = ui_senders \ {"main"}
    /\ UNCHANGED <<ui_channel, ui_loop, ui_sent, ui_handled>>
    /\ UiFrame

\* `ui_forward_handle.abort()`
AbortForwarder ==
    /\ ui_main = "dropped"
    /\ ui_main' = "aborted"
    /\ UNCHANGED <<ui_channel, ui_senders, ui_loop, ui_sent, ui_handled>>
    /\ UiFrame

\* `let _ = ui_forward_handle.await` returns once the task has ended
JoinForwarder ==
    /\ ui_main = "aborted"
    /\ "forward" \notin ui_senders
    /\ ui_main' = "join"
    /\ UNCHANGED <<ui_channel, ui_senders, ui_loop, ui_sent, ui_handled>>
    /\ UiFrame

\* `let _ = ui_thread.join()` returns once run_loop has returned
JoinUi ==
    /\ ui_main = "join"
    /\ ~ReceiverAlive
    /\ ui_main' = "returned"
    /\ UNCHANGED <<ui_channel, ui_senders, ui_loop, ui_sent, ui_handled>>
    /\ UiFrame

\* The forwarding task: its stream yields an event and
\* `ui_forward_tx.ui_send(UiMessage::Event(event))` queues it, or fails, which
\* ends the task and drops its Sender.  The task runs until it is cancelled,
\* so also between Shutdown and abort, and in a poll under way at abort.
ForwardEvent ==
    \E event \in StreamEvents :
        LET sent == ui_send(ui_channel, UiEvent(event))
        IN  /\ "forward" \in ui_senders
            /\ Cardinality({ i \in 1 .. Len(ui_sent) : ui_sent[i].kind = "Event" }) < MaxEvents
            /\ ui_channel' = sent.channel
            /\ ui_sent' = (IF sent.ok THEN Append(ui_sent, UiEvent(event)) ELSE ui_sent)
            /\ ui_senders' = (IF sent.ok THEN ui_senders ELSE ui_senders \ {"forward"})
            /\ UNCHANGED <<ui_main, ui_loop, ui_handled>>
            /\ UiFrame

\* The forwarding task is cancelled at `stream.next().await`, by abort() or,
\* after a failed boot, by the runtime shutting down; its Sender is dropped
ForwarderCancelled ==
    /\ "forward" \in ui_senders
    /\ ui_main \in {"aborted", "failed"}
    /\ ui_senders' = ui_senders \ {"forward"}
    /\ UNCHANGED <<ui_channel, ui_main, ui_loop, ui_sent, ui_handled>>
    /\ UiFrame

\* One turn of the inner loop of run_loop: `match receiver.try_recv()`
UiTryRecv ==
    LET r == try_recv(ui_channel, ui_senders)
    IN  /\ ui_loop.pc = "try_recv"
        /\ ui_channel' = r.channel
        /\ ui_handled' = (IF r.kind = "Ok" THEN Append(ui_handled, Unwrap(r.message))
                          ELSE ui_handled)
        /\ ui_loop' =
               CASE r.kind = "Ok" /\ Unwrap(r.message).kind = "Event" ->
                        [ui_loop EXCEPT
                            !.last_status = summarize_status(Unwrap(r.message).event),
                            !.logs = push_log(@, format_event(Unwrap(r.message).event))]
                 [] r.kind = "Ok" /\ Unwrap(r.message).kind = "Shutdown" ->
                        [ui_loop EXCEPT !.should_close = TRUE]
                 [] r.kind = "Empty" ->
                        [ui_loop EXCEPT !.pc = "draw"]
                 [] r.kind = "Disconnected" ->
                        [ui_loop EXCEPT !.receiver_closed = TRUE, !.should_close = TRUE,
                                        !.pc = "draw"]
        /\ UNCHANGED <<ui_senders, ui_main, ui_sent>>
        /\ UiFrame

\* `terminal.draw(..)?` and the exit test that follows it
UiDraw ==
    \E ok \in BOOLEAN :
        /\ ui_loop.pc = "draw"
        /\ ui_loop' =
               IF ~ok THEN Exited("error")
               ELSE IF closing(ui_loop.should_close, ui_loop.receiver_closed)
                        THEN Exited("closed")
                        ELSE [ui_loop EXCEPT !.pc = "poll"]
        /\ UNCHANGED <<ui_channel, ui_senders, ui_main, ui_sent, ui_handled>>
        /\ UiFrame

\* `event::poll(100 ms)?`, the key read, the second exit test, and
\* `let mut receiver_closed = false` of the next turn of the outer loop
UiPoll ==
    \E polled \in {"timeout", "quit_key", "other_key", "error"} :
        /\ ui_loop.pc = "poll"
        /\ ui_loop' =
               CASE polled = "error" -> Exited("error")
                 [] polled = "quit_key" -> Exited("key")
                 [] OTHER ->
                        IF closing(ui_loop.should_close, ui_loop.receiver_closed)
                            THEN Exited("closed")
                            ELSE [ui_loop EXCEPT !.pc = "try_recv", !.receiver_closed = FALSE,
                                                 !.kept_open = @ \/ ui_loop.should_close]
        /\ UNCHANGED <<ui_channel, ui_senders, ui_main, ui_sent, ui_handled>>
        /\ UiFrame

InitUi ==
    /\ InitBoardCalls(NoRegion) /\ EngineIdle /\ OrchIdle /\ NoConsumer /\ NoController
    /\ StartedTerminal

\* The steps of the UI thread
UiThread == UiTryRecv \/ UiDraw \/ UiPoll

NextUi ==
    \/ BootFails
    \/ SendShutdown
    \/ DropSender
    \/ AbortForwarder
    \/ JoinForwarder
    \/ JoinUi
    \/ ForwardEvent
    \/ ForwarderCancelled
    \/ UiTryRecv
    \/ UiDraw
    \/ UiPoll

SpecUi == InitUi /\ [][NextUi]_vars

\* The UI thread is an OS thread of its own: it keeps running.  Nothing is
\* assumed of run_application or of the forwarding task.
SpecUiFair == SpecUi /\ WF_vars(UiThread)

-----------------------------------------------------------------------------
(* Properties of the board calls *)

\* `square.file < width && square.rank < height` for the 9x10 grid
OnGrid(square) == square.file < DEFAULT_WIDTH /\ square.rank < DEFAULT_HEIGHT

\* The state is the one a move_piece(from, to) call with both squares on the
\* grid, from # to and a piece at from has just left behind.
MovedOnGrid ==
    /\ last.op = "move_piece"
    /\ OnGrid(last.from)
    /\ OnGrid(last.to)
    /\ last.from # last.to
    /\ IsSome(piece_at(last.before, last.from))

\* C3: move_piece(from, to) with from # to on the grid and a piece p at from
\* succeeds, leaves from empty and p at to, changes no other square (nor the
\* dimensions or the side to move), and returns what stood at to before.
C3_MovePieceRelocates ==
    MovedOnGrid =>
        /\ last.ok
        /\ piece_at(board, last.from) = None
        /\ piece_at(board, last.to) = piece_at(last.before, last.from)
        /\ \A f \in 0 .. (DEFAULT_WIDTH - 1) : \A r \in 0 .. (DEFAULT_HEIGHT - 1) :
              Square(f, r) \notin {last.from, last.to}
                 => piece_at(board, Square(f, r)) = piece_at(last.before, Square(f, r))
        /\ DOMAIN board.pieces = DOMAIN last.before.pieces
        /\ board.width = last.before.width
        /\ board.height = last.before.height
        /\ board.side_to_move = last.before.side_to_move
        /\ last.captured = piece_at(last.before, last.to)

\* C3 witness: a move onto an occupied square has been made.
C3_Witness == MovedOnGrid /\ last.ok /\ IsSome(last.captured)

\* The state holds the diff of a board and the same board after one
\* successful move of a piece onto a different, empty square.
SingleQuietMove ==
    /\ diffed
    /\ edits = 1
    /\ last.op = "move_piece"
    /\ last.ok
    /\ last.from # last.to
    /\ piece_at(last.before, last.to) = None

\* C4: after a single move of piece p from S1 to an empty S2 the inference on
\* the diff of the two boards is exactly (S1, S2, p, None), whichever of the
\* two squares the scan meets first.
C4_InferQuietMove ==
    SingleQuietMove =>
        inferred = Some([from |-> last.from, to |-> last.to,
                         piece |-> Unwrap(piece_at(prev, last.from)),
                         captured |-> None])

\* The position of an on-grid square in the scan order
ScanRank(square) == square.rank * DEFAULT_WIDTH + square.file

\* C4 witness: the destination precedes the origin in the scan order.
C4_Witness == SingleQuietMove /\ ScanRank(last.to) < ScanRank(last.from)

\* C5: A.differences(A) is empty; A.differences(B) and B.differences(A) have
\* the same length and list the same squares in the same order with before
\* and after swapped.
C5_DifferencesSymmetric ==
    diffed =>
        /\ (prev = board => diffs = <<>>)
        /\ Len(rdiffs) = Len(diffs)
        /\ \A k \in 1 .. Len(diffs) :
              rdiffs[k] = [square |-> diffs[k].square,
                           before |-> diffs[k].after,
                           after  |-> diffs[k].before]

\* C5 witness: two boards that differ on three squares, one of which only
\* the second board occupies.
C5_Witness ==
    /\ diffed
    /\ Len(diffs) = 3
    /\ \E k \in 1 .. Len(diffs) : diffs[k].before = None

-----------------------------------------------------------------------------
(* Properties of the engine calls *)

InGrid(f, r) == f >= 0 /\ r >= 0 /\ f < DEFAULT_WIDTH /\ r < DEFAULT_HEIGHT

GridSquares == {Square(f, r) : f \in 0 .. (DEFAULT_WIDTH - 1), r \in 0 .. (DEFAULT_HEIGHT - 1)}

\* The square j steps from c in direction d (it may lie off the grid)
Along(c, d, j) == Square(c.file + j * d[1], c.rank + j * d[2])

AlongInGrid(c, d, j) == InGrid(c.file + j * d[1], c.rank + j * d[2])

\* The decision lists a candidate from `from` to `to` ...
HasCandidate(from, to) ==
    \E k \in 1 .. Len(decision.candidates) :
        /\ decision.candidates[k].mv.from = from
        /\ decision.candidates[k].mv.to = to

\* ... with this score.
HasScoredCandidate(from, to, score) ==
    \E k \in 1 .. Len(decision.candidates) :
        /\ decision.candidates[k].mv.from = from
        /\ decision.candidates[k].mv.to = to
        /\ decision.candidates[k].score = score

Holds(square, side, kind) == piece_at(board, square) = Some(Piece(side, kind))

HoldsEnemy(square) ==
    IsSome(piece_at(board, square)) /\ Unwrap(piece_at(board, square)).owner # ctx_side

\* From cannon c in direction d: k - 1 empty squares, the screen on the k-th,
\* an empty square behind it and an enemy piece on the square after that.
ScreenThenEnemy(c, d, k) ==
    /\ evaluated
    /\ Holds(c, ctx_side, "Cannon")
    /\ AlongInGrid(c, d, k + 2)
    /\ \A j \in 1 .. (k - 1) : is_empty(board, Along(c, d, j))
    /\ ~is_empty(board, Along(c, d, k))
    /\ is_empty(board, Along(c, d, k + 1))
    /\ HoldsEnemy(Along(c, d, k + 2))

CardinalSet == {Cardinal[i] : i \in 1 .. Len(Cardinal)}

\* C6: on a ray whose first occupied square is a screen and whose next
\* occupied square, two squares further, holds an enemy piece, the cannon's
\* candidates include the enemy square as a capture, include the empty
\* square right behind the screen as a non-capture, and include nothing
\* beyond the enemy piece.
C6_CannonScreenRay ==
    \A c \in GridSquares : \A d \in CardinalSet : \A k \in 1 .. DEFAULT_HEIGHT :
        ScreenThenEnemy(c, d, k) =>
            /\ HasScoredCandidate(c, Along(c, d, k + 2),
                                  piece_value(Unwrap(piece_at(board, Along(c, d, k + 2)))))
            /\ HasScoredCandidate(c, Along(c, d, k + 1), 1)
            /\ \A j \in (k + 3) .. DEFAULT_HEIGHT : ~HasCandidate(c, Along(c, d, j))

\* The leg square and the destination of horse pattern pat from h
LegOf(h, pat) == Square(h.file + pat[1][1], h.rank + pat[1][2])

DestOf(h, pat) == Square(LegOf(h, pat).file + pat[2][1], LegOf(h, pat).rank + pat[2][2])

HorsePatternSet == {HorsePatterns[i] : i \in 1 .. Len(HorsePatterns)}

\* C7: for each of the eight patterns of a horse of the evaluated side, an
\* occupied leg square keeps the pattern's destination out of the candidates
\* even when the destination is empty; with the leg empty the destination is
\* a candidate exactly when it is on the grid and empty or enemy-occupied.
C7_HorseLeg ==
    evaluated =>
        \A h \in GridSquares : \A pat \in HorsePatternSet :
            (Holds(h, ctx_side, "Horse") /\ InGrid(LegOf(h, pat).file, LegOf(h, pat).rank)) =>
                IF ~is_empty(board, LegOf(h, pat))
                THEN ~HasCandidate(h, DestOf(h, pat))
                ELSE HasCandidate(h, DestOf(h, pat))
                        <=> /\ InGrid(DestOf(h, pat).file, DestOf(h, pat).rank)
                            /\ EmptyOrEnemy(board, ctx_side, DestOf(h, pat))

\* C7 witness: a horse of the evaluated side has an occupied leg whose
\* destination is on the grid and empty, and an empty leg whose destination
\* holds an enemy piece.
C7_Witness ==
    /\ evaluated
    /\ \E h \in GridSquares : \E p1, p2 \in HorsePatternSet :
          /\ Holds(h, ctx_side, "Horse")
          /\ InGrid(LegOf(h, p1).file, LegOf(h, p1).rank)
          /\ ~is_empty(board, LegOf(h, p1))
          /\ InGrid(DestOf(h, p1).file, DestOf(h, p1).rank)
          /\ is_empty(board, DestOf(h, p1))
          /\ InGrid(LegOf(h, p2).file, LegOf(h, p2).rank)
          /\ is_empty(board, LegOf(h, p2))
          /\ InGrid(DestOf(h, p2).file, DestOf(h, p2).rank)
          /\ HoldsEnemy(DestOf(h, p2))

\* The candidates that move a soldier of the evaluated side one file
\* sideways on its rank
SidewaysSteps ==
    {k \in 1 .. Len(decision.candidates) :
        LET mv == decision.candidates[k].mv
        IN  /\ Holds(mv.from, ctx_side, "Soldier")
            /\ mv.to.rank = mv.from.rank
            /\ mv.to.file # mv.from.file}

\* C8 as stated: a sideways step appears only from rank >= height/2 for the
\* side that advances toward higher ranks (Blue) and only from
\* rank < height/2 - 1 for the side that advances toward lower ranks (Red).
C8_SidewaysAsStated ==
    evaluated =>
        \A k \in SidewaysSteps :
            LET from == decision.candidates[k].mv.from
            IN  \/ ctx_side = "Blue" /\ from.rank >= board.height \div 2
                \/ ctx_side = "Red" /\ from.rank < (board.height \div 2) - 1

\* C8 as amended: a sideways step appears only from rank >= height/2 for Blue
\* and only from rank <= height/2 - 1 for Red.
C8_SidewaysOnlyPastRiver ==
    evaluated =>
        \A k \in SidewaysSteps :
            LET from == decision.candidates[k].mv.from
            IN  \/ ctx_side = "Blue" /\ from.rank >= board.height \div 2
                \/ ctx_side = "Red" /\ from.rank <= (board.height \div 2) - 1

\* C8 witness: a Red soldier steps sideways from rank height/2 - 1 while a
\* Red soldier on rank height/2 has no sideways step.
C8_Witness ==
    /\ evaluated
    /\ ctx_side = "Red"
    /\ \E k \in SidewaysSteps : decision.candidates[k].mv.from.rank = (board.height \div 2) - 1
    /\ \E s \in GridSquares : Holds(s, "Red", "Soldier") /\ s.rank = board.height \div 2

\* evaluate_position was called for Blue on the untouched initial layout.
InitialForBlue == evaluated /\ ctx_side = "Blue" /\ board = initial

\* The destinations of the candidates that start on `from`, in list order
DestinationsFrom(from) ==
    LET own == SelectSeq(decision.candidates, LAMBDA c : c.mv.from = from)
    IN  [k \in 1 .. Len(own) |-> [to |-> own[k].mv.to, score |-> own[k].score]]

\* C9 as stated: on the initial layout, for Blue, the chariot on (0,0) has no
\* candidate.
C9_ChariotBlockedAsStated ==
    InitialForBlue => DestinationsFrom(Square(0, 0)) = <<>>

\* C9 as amended: on the initial layout, for Blue, the chariot on (0,0) has
\* exactly two candidates, the non-capturing moves to (0,1) and (0,2).
C9_ChariotTwoMoves ==
    InitialForBlue =>
        DestinationsFrom(Square(0, 0))
            = <<[to |-> Square(0, 1), score |-> 1], [to |-> Square(0, 2), score |-> 1]>>

\* C9 witness: the initial layout has been evaluated for Blue.
C9_Witness == InitialForBlue /\ Holds(Square(0, 0), "Blue", "Chariot")

OwnsNothing(side) ==
    \A s \in GridSquares : is_empty(board, s) \/ Unwrap(piece_at(board, s)).owner # side

\* C10: on a board where the evaluated side owns no piece, evaluate_position
\* returns Ok with best_move = None and no candidate (no hold move).
C10_NoPieceNoMove ==
    (evaluated /\ OwnsNothing(ctx_side)) =>
        /\ decision.ok
        /\ decision.best_move = None
        /\ decision.candidates = <<>>

\* C10 witness: the board holds pieces, none of them of the evaluated side.
C10_Witness ==
    /\ evaluated
    /\ OwnsNothing(ctx_side)
    /\ \E s \in GridSquares : ~is_empty(board, s)

\* The square holds a piece of side.
OwnedBy(square, side) ==
    IsSome(piece_at(board, square)) /\ Unwrap(piece_at(board, square)).owner = side

\* No piece of side has a generated move.
NoGeneratedMove(side) ==
    \A s \in GridSquares : OwnedBy(s, side) => PieceMoves(board, side, s) = <<>>

\* The owned square the rank-major scan (rank ascending, file ascending
\* within a rank) meets first
FirstOwned(side) ==
    CHOOSE s \in GridSquares :
        /\ OwnedBy(s, side)
        /\ \A t \in GridSquares : OwnedBy(t, side) => ScanRank(s) <= ScanRank(t)

\* C11: when the evaluated side owns a piece but none of its pieces has a
\* generated move, evaluate_position returns exactly one candidate, the hold
\* pseudo-move with from = to = the first owned square of the rank-major
\* scan and score 0, and that move is best_move.
C11_HoldOnFirstOwned ==
    (evaluated /\ ~OwnsNothing(ctx_side) /\ NoGeneratedMove(ctx_side)) =>
        /\ decision.ok
        /\ Len(decision.candidates) = 1
        /\ decision.candidates[1].mv.from = FirstOwned(ctx_side)
        /\ decision.candidates[1].mv.to = FirstOwned(ctx_side)
        /\ decision.candidates[1].score = 0
        /\ decision.best_move = Some(decision.candidates[1].mv)

\* C11 witness: the evaluated side owns two pieces, on different ranks, and
\* neither can move.
C11_Witness ==
    /\ evaluated
    /\ NoGeneratedMove(ctx_side)
    /\ \E s, t \in GridSquares :
           OwnedBy(s, ctx_side) /\ OwnedBy(t, ctx_side) /\ s.rank < t.rank

\* The place of candidate c in the list en
PlaceIn(en, c) == CHOOSE i \in 1 .. Len(en) : en[i] = c

\* cs holds the candidates of en, each once, by descending score, with
\* equal-scored candidates in the order they have in en.
StablySorted(en, cs) ==
    /\ Len(cs) = Len(en)
    /\ \A i \in 1 .. Len(en) : \E k \in 1 .. Len(cs) : cs[k] = en[i]
    /\ \A i, j \in 1 .. Len(cs) :
           i < j => \/ cs[i].score > cs[j].score
                    \/ /\ cs[i].score = cs[j].score
                       /\ PlaceIn(en, cs[i]) < PlaceIn(en, cs[j])

\* mv is the move of a candidate of maximal score in en, the earliest of them.
EarliestBest(en, mv) ==
    \E b \in 1 .. Len(en) :
        /\ en[b].mv = mv
        /\ \A i \in 1 .. Len(en) :
               en[i].score < en[b].score \/ (en[i].score = en[b].score /\ b <= i)

\* C12: the candidate list of evaluate_position holds the candidates in the
\* order generate_candidates enumerates them (piece by piece along the
\* rank-major scan) sorted by descending score, equal-scored candidates in
\* enumeration order; best_move is the move of its first element, so a
\* candidate of maximal score and the earliest enumerated of those.
C12_StableDescendingSort ==
    evaluated =>
        \E en \in {generate_candidates(board, ctx_side)} :
            /\ StablySorted(en, decision.candidates)
            /\ (en = <<>> => decision.best_move = None)
            /\ (en # <<>> =>
                   /\ decision.best_move = Some(decision.candidates[1].mv)
                   /\ EarliestBest(en, decision.candidates[1].mv))

\* C12 witness: two candidates of the same, maximal score were enumerated
\* with a candidate of lower score between them.
C12_Witness ==
    /\ evaluated
    /\ \E en \in {generate_candidates(board, ctx_side)} :
       \E i, j, k \in 1 .. Len(en) :
           /\ i < j /\ j < k
           /\ en[i].score = en[k].score
           /\ en[j].score < en[i].score
           /\ \A n \in 1 .. Len(en) : en[n].score <= en[i].score

\* The material values of the spec, in tenths
MaterialTenths(kind) ==
    CASE kind = "General"  -> 10000
      [] kind = "Chariot"  -> 130
      [] kind = "Cannon"   -> 90
      [] kind = "Horse"    -> 70
      [] kind = "Elephant" -> 50
      [] kind = "Guard"    -> 30
      [] kind = "Soldier"  -> 10

\* C13: every candidate other than the hold pseudo-move scores 0.1 when its
\* destination is empty and otherwise the material value of the piece on the
\* destination, and its move's confidence is that score.
C13_ScoreIsMaterial ==
    evaluated =>
        \A k \in 1 .. Len(decision.candidates) :
            LET c == decision.candidates[k]
            IN  c.mv.from # c.mv.to =>
                    /\ c.score = (IF is_empty(board, c.mv.to)
                                  THEN 1
                                  ELSE MaterialTenths(Unwrap(piece_at(board, c.mv.to)).kind))
                    /\ c.mv.confidence = Some(c.score)

\* C13 witness: the candidates hold a capture of a chariot and a move onto
\* an empty square.
C13_Witness ==
    /\ evaluated
    /\ \E k \in 1 .. Len(decision.candidates) :
           /\ Holds(decision.candidates[k].mv.to, opponent(ctx_side), "Chariot")
           /\ decision.candidates[k].mv.from # decision.candidates[k].mv.to
    /\ \E k \in 1 .. Len(decision.candidates) :
           /\ is_empty(board, decision.candidates[k].mv.to)
           /\ decision.candidates[k].mv.from # decision.candidates[k].mv.to

-----------------------------------------------------------------------------
(* Properties of the orchestrator *)

\* Boot, MatchStart, MatchEnd for a lifecycle event, EngineDecision otherwise
EventTag(e) == IF e.kind = "Lifecycle" THEN e.phase ELSE e.kind

Tags(es) == [i \in 1 .. Len(es) |-> EventTag(es[i])]

IsPrefix(s, t) == Len(s) <= Len(t) /\ s = SubSeq(t, 1, Len(s))

\* n events of the EngineDecision kind
Decisions(n) == [i \in 1 .. n |-> "EngineDecision"]

\* What boot() then run() publish over n turns
ExpectedEvents(n) == <<"Boot", "MatchStart">> \o Decisions(n) \o <<"MatchEnd">>

\* C1: as long as no call on a collaborator has failed, boot() followed by
\* run() with max_retries = N do not stop early and publish Boot, MatchStart,
\* then EngineDecision events, then MatchEnd, in that order and nothing else;
\* once run() has returned these are exactly Boot, MatchStart, N times
\* EngineDecision and MatchEnd.
C1_EventSequence ==
    failure = None =>
        /\ pc # "failed"
        /\ IsPrefix(Tags(published), ExpectedEvents(max_retries))
        /\ recorded = published
        /\ (pc = "done" => Tags(published) = ExpectedEvents(max_retries))

\* C1 witness: run() has returned Ok after three turns, one of them without
\* a best move.
C1_Witness ==
    /\ pc = "done"
    /\ failure = None
    /\ max_retries = 3
    /\ Len(published) = 6
    /\ \E i \in 1 .. Len(published) :
           published[i].kind = "EngineDecision" /\ published[i].best_line = <<>>

\* The calls of play_turn that C2 is about
TurnCalls == {"capture_frame", "recognize", "tap_square"}

\* The events published since run() was called (boot() published Boot)
RunEvents == SubSeq(Tags(published), 2, Len(published))

\* C2: once capture_frame, recognize or tap_square has failed in turn k,
\* run() has returned the error, the failing call is the last call made on
\* any collaborator, and the events run() published are exactly MatchStart
\* followed by k-1 EngineDecision events (so none for turn k, and no
\* MatchEnd).
C2_TurnFailureAborts ==
    (IsSome(failure) /\ Unwrap(failure).step \in TurnCalls) =>
        LET k == Unwrap(failure).turn + 1
        IN  /\ k >= 1 /\ k <= max_retries
            /\ pc = "failed"
            /\ turn = k - 1
            /\ trace[Len(trace)].call = Unwrap(failure).step
            /\ trace[Len(trace)].turn = k - 1
            /\ ~trace[Len(trace)].ok
            /\ \A i \in 1 .. (Len(trace) - 1) : trace[i].ok
            /\ RunEvents = <<"MatchStart">> \o Decisions(k - 1)

\* C2 witness: the tap on the destination square failed in the third turn.
C2_Witness ==
    /\ IsSome(failure)
    /\ Unwrap(failure).step = "tap_square"
    /\ Unwrap(failure).turn = 2
    /\ Len(trace) >= 2
    /\ trace[Len(trace) - 1].call = "tap_square"
    /\ trace[Len(trace) - 1].turn = 2

\* The turn of the last call `name` that returned Ok, -1 when there is none
LastTurnOf(name) ==
    LET hits == {i \in 1 .. Len(trace) : trace[i].call = name /\ trace[i].ok}
    IN  IF hits = {} THEN -1
        ELSE trace[CHOOSE i \in hits : \A j \in hits : j <= i].turn

\* evaluate_position has returned Ok in the turn recognized last: `decision`
\* and `snapshot` are the decision and the recognized snapshot of that turn.
Decided ==
    /\ LastTurnOf("evaluate_position") >= 0
    /\ LastTurnOf("evaluate_position") = LastTurnOf("recognize")

\* The turn they belong to
DecidedTurn == LastTurnOf("evaluate_position")

\* The calls of the trace made in turn t with this name
CallsIn(t, name) == {i \in 1 .. Len(trace) : trace[i].call = name /\ trace[i].turn = t}

\* The publish calls of the engine event of turn t
DecisionPublishes(t) ==
    {i \in CallsIn(t, "publish") : trace[i].arg[1].kind = "EngineDecision"}

\* play_turn has returned Ok for turn t.
TurnReturnedOk(t) == turn > t

\* C14: in a turn whose decision has best_move = None no tap is issued, the
\* retained snapshot stays the recognized one, the engine event of the turn
\* is published exactly once (it carries the decision) and play_turn returns
\* Ok: the turn fails only if that publish itself fails.
C14_NoMoveStillPublishes ==
    (Decided /\ decision.best_move = None) =>
        /\ CallsIn(DecidedTurn, "tap_square") = {}
        /\ last_snapshot = snapshot
        /\ \/ /\ pc = "publish_decision"
              /\ DecisionPublishes(DecidedTurn) = {}
           \/ /\ Cardinality(DecisionPublishes(DecidedTurn)) = 1
              /\ \A i \in DecisionPublishes(DecidedTurn) :
                     /\ trace[i].arg[1] = EngineEvent(decision)
                     /\ trace[i].ok <=> TurnReturnedOk(DecidedTurn)
                     /\ ~trace[i].ok =>
                            /\ pc = "failed"
                            /\ failure = Some([step |-> "publish", turn |-> DecidedTurn])

\* C14 witness: the second turn had no best move, its engine event was
\* published and run() went on.
C14_Witness ==
    /\ Decided
    /\ decision.best_move = None
    /\ DecidedTurn = 1
    /\ TurnReturnedOk(DecidedTurn)
    /\ Len(published) = 4
    /\ published[4] = EngineEvent(decision)

\* The publish calls of the trace, in order
PublishCalls == SelectSeq(trace, LAMBDA c : c.call = "publish")

\* C15: in the latest publish call, a send that failed on a working transport
\* (no subscriber) was swallowed - the event was recorded in the telemetry
\* store and publish returned Ok; publish returned Ok only with the event
\* recorded, and when it returned an error the enclosing boot() or run()
\* failed with it.
C15_SendFailureSwallowed ==
    IsSome(last_send.event) =>
        /\ (last_send.transport /\ ~last_send.sent) => last_send.ok
        /\ last_send.ok =>
               /\ last_send.recorded
               /\ recorded # <<>>
               /\ recorded[Len(recorded)] = Unwrap(last_send.event)
        /\ ~last_send.ok =>
               /\ pc = "failed"
               /\ IsSome(failure)
               /\ Unwrap(failure).step = "publish"
        /\ PublishCalls # <<>>
        /\ PublishCalls[Len(PublishCalls)].arg = last_send.event
        /\ PublishCalls[Len(PublishCalls)].ok = last_send.ok

\* C15 witness: after an event that reached the subscriber, the subscriber
\* went away and the send of the next event, a turn's engine event, failed.
C15_Witness ==
    /\ IsSome(last_send.event)
    /\ Unwrap(last_send.event).kind = "EngineDecision"
    /\ last_send.transport
    /\ ~last_send.sent
    /\ last_send.ok
    /\ consumer = "gone"
    /\ Len(recorded) >= 3

\* A step of the forwarding task: the subscriber or its queue changes while
\* the orchestrator stands still
ConsumerStep == pc' = pc /\ trace' = trace /\ (consumer' # consumer \/ inbox' # inbox)

\* What the latest publish call did is what it does without any subscriber.
PublishIgnoresConsumer ==
    IsSome(last_send.event) =>
        /\ last_send.ok = last_send.transport
        /\ last_send.recorded = last_send.transport

\* The telemetry record is the one of a run without any subscriber.
SameRecord ==
    /\ recorded = published
    /\ failure = None => IsPrefix(Tags(recorded), ExpectedEvents(max_retries))
    /\ pc = "done" => Tags(recorded) = ExpectedEvents(max_retries)

\* C16: with a subscriber that may subscribe late, read slowly, never read,
\* lag past the capacity of the channel or go away at any point, no step of
\* the subscriber changes the orchestrator, every publish call does what it
\* does without a subscriber, run() stops early only on an error of a
\* collaborator, and boot() and run() always come to their end - MatchEnd
\* published and recorded when no call failed - however little the
\* subscriber reads.
C16_ConsumerNeverBlocks ==
    /\ [][ConsumerStep => UNCHANGED <<orchVars, last_send>>]_vars
    /\ [](PublishIgnoresConsumer /\ SameRecord)
    /\ [](pc = "failed" => IsSome(failure))
    /\ <>(pc \in {"done", "failed"})

\* C16 witness: run() has returned Ok while the subscriber, which never read,
\* had lagged past the capacity of the channel.
C16_Witness ==
    /\ pc = "done"
    /\ consumer = "subscribed"
    /\ Len(inbox) = ChannelCapacity
    /\ Len(published) > ChannelCapacity + 1
    /\ inbox[Len(inbox)] = LifecycleEvent("MatchEnd")

\* ---------------------------------------------------------------------
\* boot(): the order of its steps

\* The steps of boot() on its collaborators, in the order of the contract
BootOrder ==
    << [call |-> "connect",        arg |-> <<>>],
       [call |-> "inject_actions", arg |-> StartFlowActions],
       [call |-> "inject_actions", arg |-> FormationActions],
       [call |-> "warm_up",        arg |-> <<>>],
       [call |-> "run",            arg |-> <<>>],
       [call |-> "publish",        arg |-> <<LifecycleEvent("Boot")>>] >>

\* Tracing and the telemetry directory are set up before the first step
SetUpCalls == {"init_tracing", "ensure_telemetry_dir"}

\* The index in the trace of the last call boot() made: its publish of Boot,
\* or the call it stopped at
BootEnd ==
    LET over == {i \in 1 .. Len(trace) : trace[i].call = "publish" \/ ~trace[i].ok}
    IN  IF over = {} THEN Len(trace) ELSE CHOOSE i \in over : \A j \in over : i <= j

\* The calls boot() has made on its collaborators, set-up aside
BootCalls ==
    SelectSeq(SubSeq(trace, 1, BootEnd), LAMBDA c : c.call \notin SetUpCalls)

\* What was called, and with what
Step(c) == [call |-> c.call, arg |-> c.arg]

\* The Boot event has been handed to publish
BootPublished ==
    \E i \in 1 .. Len(BootCalls) : Step(BootCalls[i]) = BootOrder[Len(BootOrder)]

\* C17: the calls boot() makes are, in this order, connect, inject_actions
\* with the three start-flow taps, inject_actions with the formation tap and
\* its confirmation, warm_up, the transport's run and the publish of the
\* Boot event - each at most once and none before the one listed ahead of
\* it; a call that failed is the last call made (boot() has returned its
\* error), and Boot is handed to publish, and reaches telemetry, only after
\* every earlier step returned Ok.
C17_BootOrder ==
    /\ IsPrefix([i \in 1 .. Len(BootCalls) |-> Step(BootCalls[i])], BootOrder)
    /\ \A i \in 1 .. BootEnd :
            ~trace[i].ok =>
                /\ Len(trace) = i
                /\ pc = "failed"
                /\ failure = Some([step |-> trace[i].call, turn |-> 0])
    /\ BootPublished =>
            /\ Len(BootCalls) = Len(BootOrder)
            /\ \A i \in 1 .. BootEnd - 1 : trace[i].ok
    /\ (published # <<>>) =>
            /\ published[1] = LifecycleEvent("Boot")
            /\ BootPublished
            /\ \A i \in 1 .. BootEnd - 1 : trace[i].ok

\* C17 witness: boot() has returned Ok - all six steps were called, the Boot
\* event is published and run() is about to start.
C17_Witness ==
    /\ pc = "publish_start"
    /\ Len(BootCalls) = Len(BootOrder)
    /\ \A i \in 1 .. BootEnd : trace[i].ok
    /\ published = <<LifecycleEvent("Boot")>>

\* ---------------------------------------------------------------------
\* play_turn: the order of its calls

\* A call play_turn makes: on the controller, the recognizer or the engine,
\* or its publish of the engine event
IsTurnCall(c) ==
    \/ c.call \in {"capture_frame", "recognize", "evaluate_position", "tap_square"}
    \/ (c.call = "publish" /\ c.arg[1].kind = "EngineDecision")

\* The calls of turn t, as they were made
TurnTrace(t) == SelectSeq(trace, LAMBDA c : IsTurnCall(c) /\ c.turn = t)

\* Their names
Names(calls) == [i \in 1 .. Len(calls) |-> calls[i].call]

\* The calls of a turn with a best move, and of one without
CallsWithMove ==
    <<"capture_frame", "recognize", "evaluate_position", "tap_square", "tap_square", "publish">>
CallsWithoutMove ==
    <<"capture_frame", "recognize", "evaluate_position", "publish">>

\* The turn has made its last call, the publish of its engine event, which
\* returned Ok
Completed(calls) ==
    /\ calls # <<>>
    /\ calls[Len(calls)].call = "publish"
    /\ calls[Len(calls)].ok

\* The calls of every turn so far are in the order of play_turn, each made
\* only after the one before it returned Ok
TurnsInOrder ==
    \A t \in 0 .. MaxRetries :
        \E calls \in {TurnTrace(t)} :
            /\ IsPrefix(Names(calls), CallsWithMove) \/ IsPrefix(Names(calls), CallsWithoutMove)
            /\ \A i \in 1 .. Len(calls) - 1 : calls[i].ok
            /\ (calls # <<>> /\ t > 0) => Completed(TurnTrace(t - 1))

\* The calls of a turn are made after every call of the turns before it
TurnsDoNotOverlap ==
    \A i, j \in 1 .. Len(trace) :
        (IsTurnCall(trace[i]) /\ IsTurnCall(trace[j]) /\ trace[i].turn < trace[j].turn)
            => i < j

\* The taps of the turn decided last are the origin, then the destination,
\* of its best move, and there is none without a best move
TapsFollowBestMove ==
    Decided =>
        \E calls \in {SelectSeq(TurnTrace(DecidedTurn), LAMBDA c : c.call = "tap_square")} :
            IF IsSome(decision.best_move)
            THEN IsPrefix([i \in 1 .. Len(calls) |-> calls[i].arg],
                          << <<Unwrap(decision.best_move).from>>,
                             <<Unwrap(decision.best_move).to>> >>)
            ELSE calls = <<>>

\* The recognizer of the first turn gets no hint, that of a later turn a
\* snapshot
HintsGiven ==
    \A i \in 1 .. Len(trace) :
        trace[i].call = "recognize" => (trace[i].arg = None <=> trace[i].turn = 0)

\* A step of recognize_board hands the recognizer the snapshot retained at
\* that moment
HintsAreRetained ==
    (pc = "recognize" /\ pc' # pc) =>
        /\ trace'[Len(trace')].call = "recognize"
        /\ trace'[Len(trace')].arg = last_snapshot

\* C18: in every turn the calls are made in the order capture_frame,
\* recognize, evaluate_position, tap_square(from) and tap_square(to) when
\* the decision has a best move, publish of the engine event, none before
\* the one ahead of it returned Ok (so no tap of the destination after a
\* failed tap of the origin); the recognizer is given the retained snapshot
\* as hint, which is none in the first turn only; and no call of a turn is
\* made before the publish of the turn before it returned Ok.
C18_TurnOrder ==
    /\ [](TurnsInOrder /\ TurnsDoNotOverlap /\ TapsFollowBestMove /\ HintsGiven)
    /\ [][HintsAreRetained]_vars

\* C18 witness: the second turn has made all six calls, taps included, with
\* a hint for its recognizer, after a first turn that did the same.
C18_Witness ==
    /\ Names(TurnTrace(0)) = CallsWithMove
    /\ Names(TurnTrace(1)) = CallsWithMove
    /\ Completed(TurnTrace(1))
    /\ IsSome(TurnTrace(1)[2].arg)

\* ---------------------------------------------------------------------
\* play_turn: the retained snapshot after the taps

\* The best move of the turn decided last
BestMove == Unwrap(decision.best_move)

\* Both taps of that turn were issued and returned Ok
TapsSucceeded ==
    \E taps \in {SelectSeq(TurnTrace(DecidedTurn), LAMBDA c : c.call = "tap_square")} :
        Len(taps) = 2 /\ taps[1].ok /\ taps[2].ok

\* The turn decided last had a best move and tapped it
MoveTapped == Decided /\ IsSome(decision.best_move) /\ TapsSucceeded

\* `stored.apply_move(side, &best_move)` of that turn returned Ok
ApplySucceeded == apply_move(Unwrap(snapshot), ctx_side, BestMove).ok

\* A snapshot with the piece on `from` taken off it and put on `to`, the
\* turn handed to the opponent of `side`, the move noted and a ply counted
WithPieceMoved(snap, side, mv) ==
    LET from == Unwrap(index(snap.board, mv.from))
        to   == Unwrap(index(snap.board, mv.to))
    IN  [snap EXCEPT !.board.pieces = [snap.board.pieces EXCEPT
                                          ![from] = None,
                                          ![to]   = snap.board.pieces[from]],
                     !.board.side_to_move = opponent(side),
                     !.last_move = Some(mv),
                     !.ply = snap.ply + 1]

\* C19: once the best move m of a turn evaluated for side s has been tapped
\* (both taps Ok) and applied (Ok), the retained snapshot is the snapshot
\* recognized in that turn with the piece of m.from standing on m.to,
\* side_to_move = opponent(s), last_move = m and ply one higher, and equal
\* to it in everything else.
C19_RetainedIsRecognizedMoved ==
    (MoveTapped /\ ApplySucceeded) =>
        last_snapshot = Some(WithPieceMoved(Unwrap(snapshot), ctx_side, BestMove))

\* The same for a move between two different squares
C19_RetainedIsRecognizedMovedOffSquare ==
    (MoveTapped /\ ApplySucceeded /\ BestMove.from # BestMove.to) =>
        last_snapshot = Some(WithPieceMoved(Unwrap(snapshot), ctx_side, BestMove))

\* C19 witness: a capture was tapped and applied - the retained board holds
\* one piece less than the recognized one.
C19_Witness ==
    /\ MoveTapped
    /\ ApplySucceeded
    /\ BestMove.from # BestMove.to
    /\ piece_at(Unwrap(snapshot).board, BestMove.to) # None
    /\ pc = "publish_decision"

\* The hold pseudo-move was tapped and applied
C19_HoldApplied ==
    /\ MoveTapped
    /\ ApplySucceeded
    /\ BestMove.from = BestMove.to
    /\ pc = "publish_decision"

\* C20: once the best move of a turn has been tapped (both taps Ok) and
\* apply_move has refused it - no piece on its origin, a piece of the other
\* side on it, or a destination off the board - the retained snapshot is
\* exactly the snapshot recognized in that turn, and the turn goes on as if
\* the move had been applied: its engine event is published once, carrying
\* the decision, play_turn returns Ok when that publish does (run() is then
\* in its next iteration or past the loop, and an error it returns later is
\* not of this turn), and nothing but a failure of that publish fails the
\* turn.
C20_ApplyFailureSwallowed ==
    (MoveTapped /\ ~ApplySucceeded) =>
        /\ last_snapshot = snapshot
        /\ \/ /\ pc = "publish_decision"
              /\ DecisionPublishes(DecidedTurn) = {}
           \/ /\ Cardinality(DecisionPublishes(DecidedTurn)) = 1
              /\ \A i \in DecisionPublishes(DecidedTurn) :
                     /\ trace[i].arg[1] = EngineEvent(decision)
                     /\ trace[i].ok <=> TurnReturnedOk(DecidedTurn)
                     /\ (trace[i].ok /\ IsSome(failure)) =>
                            Unwrap(failure).turn > DecidedTurn
                     /\ ~trace[i].ok =>
                            /\ pc = "failed"
                            /\ failure = Some([step |-> "publish", turn |-> DecidedTurn])

\* The error apply_move returned for the best move of the turn decided last
ApplyError == apply_move(Unwrap(snapshot), ctx_side, BestMove).err

\* C20 witness: the tapped move of the first turn pointed off the board, its
\* engine event was published and the second turn has captured its frame.
C20_Witness ==
    /\ MoveTapped
    /\ ~ApplySucceeded
    /\ ApplyError = "target_invalid"
    /\ DecidedTurn = 0
    /\ turn = 1
    /\ pc = "recognize"

\* The other two refusals of apply_move were tapped and swallowed as well
C20_OriginEmptySwallowed ==
    MoveTapped /\ ~ApplySucceeded /\ ApplyError = "origin_empty" /\ pc = "done"
C20_NotOwnerSwallowed ==
    MoveTapped /\ ~ApplySucceeded /\ ApplyError = "not_owner" /\ pc = "done"

-----------------------------------------------------------------------------
(* Properties of the engine calls: the palace *)

\* The kinds generate_candidates hands to palace_moves
PalaceKinds == {"Guard", "General", "Elephant"}

\* The 3x3 palace of a side on the evaluated board, as the contract has it
InPalace(square, side) ==
    /\ square.file \in 3 .. 5
    /\ IF side = "Blue"
       THEN square.rank \in 0 .. 2
       ELSE square.rank \in (board.height - 3) .. (board.height - 1)

\* |a - b|
Distance(a, b) == IF a >= b THEN a - b ELSE b - a

\* The shape of a move of this kind: one step in one of the eight
\* directions, or two files and two ranks along a diagonal
HasShapeOf(kind, from, to) ==
    IF kind = "Elephant"
    THEN Distance(from.file, to.file) = 2 /\ Distance(from.rank, to.rank) = 2
    ELSE /\ Distance(from.file, to.file) <= 1
         /\ Distance(from.rank, to.rank) <= 1
         /\ from # to

\* C21: every candidate generated for a guard, a general or an elephant of
\* the evaluated side starts on the square of that piece, ends inside the
\* palace of the side (files 3..5; ranks 0..2 for Blue, the three highest
\* ranks for Red) and has the shape of the kind: one step in one of the
\* eight directions for guard and general, a (+-2, +-2) offset for the
\* elephant.  These candidates are the ones the decision lists for the
\* piece (the hold pseudo-move, generated when no piece has a move, is not
\* a move of a kind).
C21_PalaceMoves ==
    evaluated =>
        \A from \in GridSquares : \A kind \in PalaceKinds :
            Holds(from, ctx_side, kind) =>
                \E cs \in {PieceMoves(board, ctx_side, from)} :
                    /\ \A k \in 1 .. Len(cs) :
                           /\ cs[k].mv.from = from
                           /\ InPalace(cs[k].mv.to, ctx_side)
                           /\ HasShapeOf(kind, from, cs[k].mv.to)
                           /\ HasCandidate(from, cs[k].mv.to)
                    /\ \A to \in GridSquares :
                           (HasCandidate(from, to) /\ to # from) =>
                               \E k \in 1 .. Len(cs) : cs[k].mv.to = to

\* C21 witness: a guard of the evaluated side standing outside its palace
\* has a candidate that enters it, next to a piece for which a step of its
\* kind would leave the palace.
C21_Witness ==
    /\ evaluated
    /\ \E from, to \in GridSquares :
          /\ Holds(from, ctx_side, "Guard")
          /\ ~InPalace(from, ctx_side)
          /\ HasCandidate(from, to)
          /\ to # from
    /\ \E from \in GridSquares : \E kind \in PalaceKinds :
          /\ Holds(from, ctx_side, kind)
          /\ InPalace(from, ctx_side)
          /\ from.rank \in {2, board.height - 3}

-----------------------------------------------------------------------------
(* Properties of the board calls: the initial layout *)

\* The back rank of a side, file 0 first
LayoutBackRank ==
    [f \in 0 .. 8 |->
        CASE f \in {0, 8} -> "Chariot"
          [] f \in {1, 7} -> "Horse"
          [] f \in {2, 6} -> "Elephant"
          [] f \in {3, 5} -> "Guard"
          [] f = 4        -> "General"]

\* What the layout of the contract puts on a square of the 9x10 grid
LayoutAt(square) ==
    CASE square.rank = 0 -> Some(Piece("Blue", LayoutBackRank[square.file]))
      [] square.rank = 9 -> Some(Piece("Red", LayoutBackRank[square.file]))
      [] square.rank = 2 /\ square.file \in {1, 7} -> Some(Piece("Blue", "Cannon"))
      [] square.rank = 7 /\ square.file \in {1, 7} -> Some(Piece("Red", "Cannon"))
      [] square.rank = 3 /\ square.file \in {0, 2, 4, 6, 8} -> Some(Piece("Blue", "Soldier"))
      [] square.rank = 6 /\ square.file \in {0, 2, 4, 6, 8} -> Some(Piece("Red", "Soldier"))
      [] OTHER -> None

\* The squares of a board that hold a piece
Occupied(b) == {square \in GridSquares : ~is_empty(b, square)}

\* The board is the one BoardState::initial() returned, untouched since
FreshInitial == region.base = "initial" /\ nops = 0

\* C22: a board returned by BoardState::initial() is 9 wide and 10 high and
\* holds exactly 32 pieces: on rank 0 for Blue and rank 9 for Red chariot,
\* horse, elephant, guard, general, guard, elephant, horse, chariot on files
\* 0..8; cannons on files 1 and 7 of rank 2 (Blue) and rank 7 (Red);
\* soldiers on files 0, 2, 4, 6, 8 of rank 3 (Blue) and rank 6 (Red);
\* nothing elsewhere.  Two boards it returned are equal (the copy taken of
\* the first is the second).
C22_InitialLayout ==
    FreshInitial =>
        /\ board.width = 9 /\ board.height = 10
        /\ Len(ScanOrder(board.width, board.height)) = 90
        /\ \A square \in GridSquares : piece_at(board, square) = LayoutAt(square)
        /\ Cardinality(Occupied(board)) = 32
        /\ board = initial
        /\ prev = board
        /\ diffed => (diffs = <<>> /\ rdiffs = <<>>)

\* C22 witness: the untouched initial board was compared with a second one,
\* and no square differs.
C22_Witness ==
    /\ FreshInitial
    /\ diffed
    /\ Cardinality(Occupied(prev)) = 32

-----------------------------------------------------------------------------
(* Properties of the board calls: refused mutations *)

\* The call named a square off the board, or an origin without a piece
OriginRefused == ~OnGrid(last.from) \/ piece_at(last.before, last.from) = None

TargetRefused == ~OnGrid(last.to)

\* The piece on the origin is not of the side the move is applied for
OwnerRefused ==
    /\ piece_at(last.before, last.from) # None
    /\ Unwrap(piece_at(last.before, last.from)).owner # Unwrap(last.side)

\* Board and snapshot are as they were before the call
Untouched ==
    /\ board.pieces = last.before.pieces
    /\ board.side_to_move = last.before.side_to_move
    /\ board = last.before
    /\ game.last_move = last.game.last_move
    /\ game.ply = last.game.ply

\* C23: move_piece returns an error exactly when its origin is off the board
\* or empty or its destination is off the board; apply_move returns one in
\* these cases and when the piece on the origin is not of the given side;
\* and after an error of either, the pieces, side_to_move, last_move and ply
\* are what they were before the call.
C23_RefusedMutationsAtomic ==
    /\ last.op = "move_piece" =>
            /\ ~last.ok <=> (OriginRefused \/ TargetRefused)
            /\ ~last.ok => Untouched
    /\ last.op = "apply_move" =>
            /\ ~last.ok <=> (OriginRefused \/ OwnerRefused \/ TargetRefused)
            /\ ~last.ok => Untouched

\* C23 witness: after a move was applied (ply 1), apply_move refused a move
\* of an owned piece to a square off the board.
C23_Witness ==
    /\ last.op = "apply_move"
    /\ ~last.ok
    /\ TargetRefused
    /\ ~OriginRefused
    /\ ~OwnerRefused
    /\ game.ply = 1
    /\ IsSome(game.last_move)

\* The other refusals were met as well
C23_NotOwnerRefused ==
    last.op = "apply_move" /\ ~last.ok /\ OwnerRefused /\ ~TargetRefused
C23_MoveOffBoardRefused ==
    last.op = "move_piece" /\ ~last.ok /\ TargetRefused /\ ~OriginRefused
C23_MoveFromOffBoardRefused ==
    last.op = "move_piece" /\ ~last.ok /\ ~OnGrid(last.from)

-----------------------------------------------------------------------------
(* play_turn: the hold pseudo-move *)

\* The best move of the turn decided last is the hold pseudo-move, and both
\* its taps returned Ok
HoldTapped == MoveTapped /\ BestMove.from = BestMove.to

\* C24: after a turn whose best move is the hold pseudo-move (from = to), the
\* retained snapshot has every piece where the recognized snapshot has it:
\* the piece of the hold square still stands on it, and the retained board
\* holds as many pieces as the recognized one.
C24_HoldKeepsPlacement ==
    HoldTapped =>
        /\ piece_at(Unwrap(last_snapshot).board, BestMove.from)
              = piece_at(Unwrap(snapshot).board, BestMove.from)
        /\ Cardinality(Occupied(Unwrap(last_snapshot).board))
              = Cardinality(Occupied(Unwrap(snapshot).board))
        /\ Unwrap(last_snapshot).board.pieces = Unwrap(snapshot).board.pieces

\* What the code does instead: the hold square is empty in the retained
\* snapshot, which holds one piece less, and every other square is as
\* recognized
C24_HoldErasesPiece ==
    HoldTapped =>
        /\ piece_at(Unwrap(snapshot).board, BestMove.from) # None
        /\ piece_at(Unwrap(last_snapshot).board, BestMove.from) = None
        /\ Cardinality(Occupied(Unwrap(last_snapshot).board))
              = Cardinality(Occupied(Unwrap(snapshot).board)) - 1
        /\ \A square \in GridSquares \ {BestMove.from} :
               piece_at(Unwrap(last_snapshot).board, square)
                 = piece_at(Unwrap(snapshot).board, square)

\* C24 witness: the hold pseudo-move of the rule-based engine was tapped and
\* its engine event published; run() is in its next iteration.
C24_Witness ==
    /\ HoldTapped
    /\ decision = evaluate_position(Unwrap(snapshot), ctx_side)
    /\ turn = DecidedTurn + 1
    /\ pc = "loop"

-----------------------------------------------------------------------------
(* Properties of the engine calls: candidates that can be played *)

\* The snapshot evaluate_position was called on
EvaluatedSnapshot == [default_snapshot EXCEPT !.board = board]

\* C25: every candidate evaluate_position returns for a 9x10 board has its
\* origin and its destination on the grid and its origin on a piece of the
\* evaluated side; so both squares of a candidate - of the best move among
\* them - have a screen point (tap_square passes its bounds check), and
\* apply_move of the candidate for that side on the evaluated snapshot
\* returns Ok.
C25_CandidatesPlayable ==
    evaluated =>
        /\ \A k \in 1 .. Len(decision.candidates) :
               \E mv \in {decision.candidates[k].mv} :
                   /\ OnGrid(mv.from)
                   /\ OnGrid(mv.to)
                   /\ piece_at(board, mv.from) # None
                   /\ Unwrap(piece_at(board, mv.from)).owner = ctx_side
                   /\ square_to_point(mv.from) # None
                   /\ square_to_point(mv.to) # None
                   /\ apply_move(EvaluatedSnapshot, ctx_side, mv).ok
        /\ IsSome(decision.best_move) =>
               /\ decision.candidates # <<>>
               /\ decision.best_move = Some(decision.candidates[1].mv)

\* C25 witness: a piece in the corner (0,0), from where two directions
\* leave the grid at once, has a candidate, and there is a best move.
C25_Witness ==
    /\ evaluated
    /\ IsSome(decision.best_move)
    /\ board.width = DEFAULT_WIDTH /\ board.height = DEFAULT_HEIGHT
    /\ \E to \in GridSquares : to # Square(0, 0) /\ HasCandidate(Square(0, 0), to)
    /\ \E to \in GridSquares : to.file = DEFAULT_WIDTH - 1 /\ HasCandidate(Square(0, 0), to)

-----------------------------------------------------------------------------
(* Properties of the engine calls: own pieces are not taken *)

\* The candidate is the hold pseudo-move default_hold_move returns
IsHoldMove(c) == default_hold_move(board, ctx_side) = Some(c)

\* C26: of the candidates evaluate_position returns, only the hold
\* pseudo-move - which is returned alone - ends on a square that holds a
\* piece of the evaluated side; every other candidate, of whatever kind of
\* piece, ends on a square other than its origin that is empty or holds a
\* piece of the opponent.
C26_NoFriendlyFire ==
    evaluated =>
        \A k \in 1 .. Len(decision.candidates) :
            \E c \in {decision.candidates[k]} :
                IF IsHoldMove(c)
                THEN decision.candidates = <<c>>
                ELSE /\ c.mv.from # c.mv.to
                     /\ ~OwnedBy(c.mv.to, ctx_side)
                     /\ OwnedBy(c.mv.from, ctx_side)

\* C26 witness: a guard or general of the evaluated side has a piece of its
\* own side on a palace square one step away, to which it has no candidate,
\* and a candidate to another square.
C26_Witness ==
    /\ evaluated
    /\ \E from, own, to \in GridSquares :
          /\ Holds(from, ctx_side, "Guard") \/ Holds(from, ctx_side, "General")
          /\ OwnedBy(own, ctx_side)
          /\ own # from
          /\ InPalace(own, ctx_side)
          /\ HasShapeOf("Guard", from, own)
          /\ ~HasCandidate(from, own)
          /\ to # from
          /\ HasCandidate(from, to)

-----------------------------------------------------------------------------
(* Properties of the board calls: inference of a capture *)

\* The state holds the diff of a board and the same board after one
\* successful move of a piece onto a different, occupied square.
SingleMoveOntoPiece ==
    /\ diffed
    /\ edits = 1
    /\ last.op = "move_piece"
    /\ last.ok
    /\ last.from # last.to
    /\ piece_at(last.before, last.to) # None

\* The piece that moved, and the piece it moved onto
MovedPiece == Unwrap(piece_at(last.before, last.from))
TakenPiece == Unwrap(piece_at(last.before, last.to))

\* C27: for the diff of a board B and of B after move_piece(from, to), with
\* from # to, piece p on from and piece q on to: when q differs from p in
\* owner or kind, the inference is (from, to, p, Some(q)); when q has the
\* owner and the kind of p, the diff is the origin alone (p before, nothing
\* after) and the inference is none.
C27_InferCapture ==
    SingleMoveOntoPiece =>
        /\ prev = last.before
        /\ IF TakenPiece # MovedPiece
           THEN /\ inferred = Some([from |-> last.from, to |-> last.to,
                                    piece |-> MovedPiece, captured |-> Some(TakenPiece)])
                /\ Len(diffs) = 2
           ELSE /\ diffs = <<[square |-> last.from, before |-> Some(MovedPiece), after |-> None]>>
                /\ inferred = None

\* C27 witness: a piece was taken by a piece of another owner, on a square
\* the scan meets before the origin.
C27_Witness ==
    /\ SingleMoveOntoPiece
    /\ TakenPiece.owner # MovedPiece.owner
    /\ ScanRank(last.to) < ScanRank(last.from)

\* A piece was moved onto a piece of its own owner and kind
C27_SamePieceTaken == SingleMoveOntoPiece /\ TakenPiece = MovedPiece

-----------------------------------------------------------------------------
(* run(): ply and side to move of the retained snapshot *)

\* The side to move after n applied moves, Blue moving first
SideAfter(n) == IF n % 2 = 0 THEN "Blue" ELSE "Red"

\* C28: with the recognizer carrying ply and side_to_move of the retained
\* snapshot forward (ply 0 and Blue when there is none), the retained
\* snapshot has at every moment of run() a ply equal to the number of turns
\* in which the best move was applied with success, and Blue to move
\* exactly when that ply is even; the recognized snapshot of a turn has the
\* ply and side reached before it, and that side is the one
\* evaluate_position is called for.
C28_PlyCountsAppliedMoves ==
    /\ IsSome(last_snapshot) =>
           /\ Unwrap(last_snapshot).ply = applied_moves
           /\ Unwrap(last_snapshot).board.side_to_move = "Blue"
                 <=> Unwrap(last_snapshot).ply % 2 = 0
           /\ Unwrap(last_snapshot).board.side_to_move = SideAfter(applied_moves)
    /\ pc \in {"evaluate", "tap_from", "tap_to"} =>
           /\ Unwrap(snapshot).ply = applied_moves
           /\ ctx_side = SideAfter(applied_moves)
    /\ applied_moves <= turn + 1

\* C28 witness: three turns, of which the first and the third applied their
\* best move and the second tapped a move that could not be applied; the
\* second and the third were evaluated for Red, and the retained snapshot
\* has ply 2 and Blue to move.
C28_Witness ==
    /\ pc = "loop"
    /\ turn = 3
    /\ applied_moves = 2
    /\ MoveTapped
    /\ ApplySucceeded
    /\ ctx_side = "Red"
    /\ Unwrap(last_snapshot).board.side_to_move = "Blue"
    /\ Unwrap(last_snapshot).ply = 2
    /\ \E i \in 1 .. Len(trace) :
          /\ trace[i].call = "recognize"
          /\ trace[i].turn = 2
          /\ Unwrap(trace[i].arg).ply = 1
          /\ Unwrap(trace[i].arg).board.side_to_move = "Red"

-----------------------------------------------------------------------------
(* Properties of AdbController::inject_actions *)

\* The call has returned
CallReturned(c) == c.pc = "returned"

\* The call has returned the error of ensure_actions_present
ReturnedEmptyError(c) ==
    /\ CallReturned(c)
    /\ ~Unwrap(c.result).ok
    /\ Unwrap(c.result).err = "no input actions specified"

\* The call has returned the error of one of its commands
ReturnedShellError(c) ==
    /\ CallReturned(c)
    /\ ~Unwrap(c.result).ok
    /\ Unwrap(c.result).err # "no input actions specified"

\* The call has returned Ok
ReturnedOk(c) == CallReturned(c) /\ Unwrap(c.result).ok

\* The number of calls of which P holds
CountCalls(P(_)) == Cardinality({ i \in 1 .. Len(injection) : P(injection[i]) })

\* C29: every inject_actions call has handed run_shell the commands of a
\* prefix of its list, in list order, each command only after the one before
\* it has succeeded; a call with an empty list has returned the empty-action
\* error, has executed nothing and has counted nothing; a call has returned a
\* command's error exactly when its last command failed, has then executed
\* nothing after it and has added exactly one to failed_inputs and nothing to
\* successful_inputs; a call has returned Ok exactly when every action of its
\* non-empty list has been executed with success, and has then added exactly
\* one to successful_inputs and nothing to failed_inputs; a call that has
\* not returned has counted nothing; and the two counters are the numbers of
\* calls that returned Ok and that returned a command's error.
C29_InjectActions ==
    /\ \A i \in 1 .. Len(injection) :
          LET c == injection[i]
              n == Len(c.executed)
          IN  /\ n <= Len(c.actions)
              /\ \A k \in 1 .. n : c.executed[k].command = ShellCommand(c.actions[k])
              /\ \A k \in 1 .. (n - 1) : c.executed[k].exit = "ok"
              /\ c.actions = <<>> =>
                     /\ ReturnedEmptyError(c)
                     /\ n = 0
                     /\ c.counted = [successful_inputs |-> 0, failed_inputs |-> 0]
              /\ ReturnedEmptyError(c) => c.actions = <<>>
              /\ ReturnedShellError(c) <=> (n > 0 /\ c.executed[n].exit = "err")
              /\ ReturnedShellError(c) =>
                     c.counted = [successful_inputs |-> 0, failed_inputs |-> 1]
              /\ ReturnedOk(c) <=>
                     /\ CallReturned(c)
                     /\ n = Len(c.actions)
                     /\ n > 0
                     /\ \A k \in 1 .. n : c.executed[k].exit = "ok"
              /\ ReturnedOk(c) =>
                     c.counted = [successful_inputs |-> 1, failed_inputs |-> 0]
              /\ ~CallReturned(c) =>
                     /\ c.counted = [successful_inputs |-> 0, failed_inputs |-> 0]
                     /\ c.result = None
                     /\ (c.pc = "run_shell") <=> (n > 0 /\ c.executed[n].exit = "pending")
    /\ metrics.successful_inputs = CountCalls(ReturnedOk)
    /\ metrics.failed_inputs = CountCalls(ReturnedShellError)

\* C29 witness: a call with a tap, a swipe and a key event returned Ok, and
\* a second call of three actions returned the error of its second command,
\* its third action never executed; each counter stands at one.
C29_Witness ==
    /\ Len(injection) = 2
    /\ ReturnedOk(injection[1])
    /\ Len(injection[1].actions) = 3
    /\ { injection[1].actions[k].kind : k \in 1 .. 3 } = {"Tap", "Swipe", "KeyEvent"}
    /\ ReturnedShellError(injection[2])
    /\ Len(injection[2].actions) = 3
    /\ Len(injection[2].executed) = 2
    /\ injection[2].executed[2].command = <<"input", "keyevent", "4">>
    /\ metrics.successful_inputs = 1
    /\ metrics.failed_inputs = 1

\* A call with an empty list returned the empty-action error while another
\* call had already been counted.
C29_EmptyRefused ==
    /\ Len(injection) = 2
    /\ ReturnedOk(injection[1])
    /\ ReturnedEmptyError(injection[2])
    /\ metrics.successful_inputs = 1
    /\ metrics.failed_inputs = 0

-----------------------------------------------------------------------------
(* Properties of the terminal UI loop *)

\* run_application has made its `ui_tx.send(UiMessage::Shutdown)` call
ShutdownSent == ui_main \in {"sent", "dropped", "aborted", "join", "returned"}

\* run_loop has returned on `should_close && receiver_closed`
LoopClosed == ui_loop.pc = "exited" /\ ui_loop.exit = "closed"

\* run_loop has returned on q or Esc, or on an error of draw or poll
LoopLeft == ui_loop.pc = "exited" /\ ui_loop.exit \in {"key", "error"}

\* C30: (a) run_loop returns on its exit test only when every Sender of the
\* channel is dropped, the disconnection has been observed, and every
\* message the channel accepted has been received, in order; so a Shutdown
\* message received while a Sender is alive does not end the loop, which
\* then ends only on a q/Esc key or on a terminal error.  (b) With the UI
\* thread scheduled fairly, once Shutdown has been sent and both Senders are
\* dropped, run_loop returns, and when it returns on its exit test it has
\* received every message that was queued.
C30_UiShutdown ==
    /\ [](LoopClosed =>
             /\ ui_senders = {}
             /\ ui_channel = <<>>
             /\ ui_handled = ui_sent
             /\ ui_loop.should_close
             /\ ui_loop.receiver_closed)
    /\ []((ui_loop.pc = "exited" /\ ui_senders # {}) => LoopLeft)
    /\ (ShutdownSent /\ ui_senders = {})
           ~> (ui_loop.pc = "exited" /\ (LoopClosed => ui_handled = ui_sent))

\* C30 witness: the loop received Shutdown while the forwarding task's
\* Sender was alive and went on to another turn; an event was queued after
\* Shutdown; with both Senders dropped the loop received that event too,
\* observed the disconnection and returned on its exit test.
C30_Witness ==
    /\ LoopClosed
    /\ ui_loop.kept_open
    /\ ui_main \in {"aborted", "join"}
    /\ ui_senders = {}
    /\ Len(ui_sent) = 3
    /\ ui_sent[2] = UiShutdown
    /\ ui_sent[3].kind = "Event"
    /\ ui_handled = ui_sent
    /\ Len(ui_loop.logs) = 2

\* Shutdown has been received and drawn, and the loop is polling for keys
\* because the forwarding task still holds its Sender.
C30_ShutdownAloneKeepsLoop ==
    /\ ui_loop.pc = "poll"
    /\ ui_loop.should_close
    /\ ui_loop.kept_open
    /\ ui_senders = {"forward"}
    /\ ui_channel = <<>>
    /\ ui_main = "aborted"

====
